---------------------------- MODULE Spec2Model ----------------------------
(***************************************************************************)
(* Pose-gesture detection of motion-dino (src/lib/confetti.ts, the          *)
(* usePoseGesture hook and its helpers computeTierSignal, estimateGesture   *)
(* and publish).                                                            *)
(*                                                                          *)
(* Numbers.  The program computes with JavaScript numbers (IEEE 754 binary  *)
(* floating point, round to nearest, ties to even).  The model keeps that   *)
(* arithmetic at a reduced width: a number is an integer count of Unit-ths, *)
(* and the result of every arithmetic operation is rounded to Prec          *)
(* significant bits, ties to even (FlRound).  Decimal literals of the       *)
(* source (0.85, 0.10, ...) are rounded the same way (Lit), as the          *)
(* JavaScript parser rounds them to binary64.                               *)
(*                                                                          *)
(* Time.  The program compares timestamps only through differences          *)
(* (now - lastDetectAt, now - pendingSince).  The model stores, for each    *)
(* timestamp, the time elapsed since it (sinceDetect, pendingAge), and      *)
(* saturates it at ElapsedCap, above every duration the program compares    *)
(* against.                                                                 *)
(***************************************************************************)
EXTENDS Integers, Sequences, FiniteSets, TLC

VARIABLES
    enabled,        \* the hook's `enabled` option
    runtime,        \* runtimeRef.current
    published,      \* stateRef.current, the record handed to setState
    landmarkerRef,  \* TRUE once the PoseLandmarker has been created
    initPromiseRef, \* TRUE while the PoseLandmarker creation is in flight
    loop,           \* where the session's loop is: no callback pending, a frame
                    \* callback scheduled, suspended in ensureLandmarker, or
                    \* resumed from it with the landmarker
    staleAwaiting,  \* TRUE while a loop of an earlier session is suspended there
    video,          \* videoRef.current: absent, loading, or with current data
    subject,        \* what is in front of the camera: pose, phase, moves left
    obs,            \* history of the latest processed frames (not program state)
    lmIn,           \* computeTierSignal's argument when it is exercised on its own
    tierOut,        \* its result for lmIn, or NotRun
    scene,          \* the WelcomeScene component: its state, refs, timers and
                    \* pose prop
    watch           \* what has been seen of its challenge phase (not program
                    \* state)

hookVars == <<enabled, runtime, published, landmarkerRef, initPromiseRef, loop,
              staleAwaiting, video, subject, obs>>
tierVars == <<lmIn, tierOut>>
sceneVars == <<scene, watch>>
vars == <<enabled, runtime, published, landmarkerRef, initPromiseRef, loop,
          staleAwaiting, video, subject, obs, lmIn, tierOut, scene, watch>>

----------------------------------------------------------------------------
(* JavaScript number arithmetic at reduced width *)

\* Significant bits of a number (53 in the program).
Prec == 6

RECURSIVE Pow2(_)
Pow2(n) == IF n = 0 THEN 1 ELSE 2 * Pow2(n - 1)

\* 1.0; the smallest normal number is 2^(Prec-1)/Unit = 1/128.
Unit == Pow2(Prec + 6)

\* Numbers below TwoP Unit-ths are spaced one Unit-th apart.
TwoP == Pow2(Prec)

Abs(x) == IF x < 0 THEN -x ELSE x

\* The spacing of representable numbers around n/d (in Unit-ths).
RECURSIVE UlpOf(_, _, _)
UlpOf(n, d, u) == IF n < TwoP * d * u THEN u ELSE UlpOf(n, d, 2 * u)

\* n/m rounded to the nearest integer, ties to the even one (n >= 0, m > 0).
NearestEven(n, m) ==
    LET f == n \div m
        r == n % m
    IN  IF 2 * r > m \/ (2 * r = m /\ f % 2 = 1) THEN f + 1 ELSE f

\* The representable number nearest to n/d Unit-ths (d > 0).
FlRound(n, d) ==
    LET a == Abs(n)
        u == UlpOf(a, d, 1)
        m == NearestEven(a, d * u) * u
    IN  IF n < 0 THEN -m ELSE m

\* The decimal literal n/d of the source.
Lit(n, d) == FlRound(n * Unit, d)

\* An integer of the source (an array length, a frame count) as a number.
Num(k) == FlRound(k * Unit, 1)

FAdd(a, b) == FlRound(a + b, 1)
FSub(a, b) == FlRound(a - b, 1)
FMul(a, b) == FlRound(a * b, Unit)
FDiv(a, b) == IF b < 0 THEN FlRound(-(a * Unit), -b) ELSE FlRound(a * Unit, b)
FMax(a, b) == IF a >= b THEN a ELSE b
FMin(a, b) == IF a <= b THEN a ELSE b

\* Array.prototype.reduce((acc, v) => acc + v, 0): the left-to-right sum.
RECURSIVE FSum(_)
FSum(s) == IF s = <<>> THEN 0 ELSE FAdd(FSum(SubSeq(s, 1, Len(s) - 1)), s[Len(s)])

----------------------------------------------------------------------------
(* Constants of the hook *)

DETECTION_INTERVAL_MS == 34
BASELINE_SMOOTHING == Lit(85, 100)
JUMP_THRESHOLD == Lit(10, 100)
QUICK_JUMP_THRESHOLD == Lit(65, 1000)
QUICK_JUMP_VELOCITY == Lit(10, 1000)
DUCK_THRESHOLD == Lit(9, 100)
CALIBRATION_FRAMES == 15
DEBOUNCE_MS == 90
MIN_VISIBILITY == Lit(18, 100)
MAX_MISSING_FRAMES == 20
RECALIBRATION_DRIFT_THRESHOLD == Lit(35, 100)
RECALIBRATION_FRAMES == 10
IDLE_ACCELERATION_FRAMES == 60
IDLE_SMOOTHING == Lit(75, 100)

\* Literals of computeTierSignal.
MIN_SHOULDER_SPAN == Lit(9, 100)
MIN_HEAD_SPAN == Lit(6, 100)
HEAD_WEIGHT == Lit(52, 100)
SHOULDER_WEIGHT == Lit(48, 100)
TIER1_MULTIPLIER == Lit(10, 10)
TIER2_MULTIPLIER == Lit(12, 10)
TIER3_MULTIPLIER == Lit(85, 100)

----------------------------------------------------------------------------
(* computeTierSignal *)

\* A NormalizedLandmark: position and visibility, each a number.
Landmark(x, y, v) == [x |-> x, y |-> y, visibility |-> v]

\* The five landmarks computeTierSignal reads (indices 0, 7, 8, 11, 12).
LandmarkSet(n, le, re, ls, rs) ==
    [nose |-> n, leftEar |-> le, rightEar |-> re,
     leftShoulder |-> ls, rightShoulder |-> rs]

\* Variant: a point seen with visibility exactly MIN_VISIBILITY is not usable.
UsableStrict(point) == point.visibility > MIN_VISIBILITY

Usable(point) == point.visibility >= MIN_VISIBILITY

\* [nose, leftEar, rightEar].filter(point => point.visibility >= MIN_VISIBILITY)
HeadCandidates(lm) == SelectSeq(<<lm.nose, lm.leftEar, lm.rightEar>>, Usable)

HasShoulder(lm) == Usable(lm.leftShoulder) /\ Usable(lm.rightShoulder)

RECURSIVE SeqYs(_)
SeqYs(ps) == IF ps = <<>> THEN <<>> ELSE <<ps[1].y>> \o SeqYs(Tail(ps))

RECURSIVE MaxX(_)
MaxX(ps) == IF Len(ps) = 1 THEN ps[1].x ELSE FMax(ps[1].x, MaxX(Tail(ps)))

RECURSIVE MinX(_)
MinX(ps) == IF Len(ps) = 1 THEN ps[1].x ELSE FMin(ps[1].x, MinX(Tail(ps)))

\* headCandidates.reduce((sum, point) => sum + point.y, 0) / headCandidates.length
HeadY(heads) == FDiv(FSum(SeqYs(heads)), Num(Len(heads)))

NoTier == [ok |-> FALSE]

\* computeTierSignal has not been called.
NotRun == [ok |-> FALSE, pending |-> TRUE]

TierResult(t, s, m) == [ok |-> TRUE, tier |-> t, signal |-> s, thresholdMultiplier |-> m]

\* (leftShoulder.y + rightShoulder.y) / 2
ShoulderMidY(lm) == FDiv(FAdd(lm.leftShoulder.y, lm.rightShoulder.y), Num(2))

\* Math.max(0.09, Math.abs(rightShoulder.x - leftShoulder.x))
ShoulderSpan(lm) ==
    FMax(MIN_SHOULDER_SPAN, Abs(FSub(lm.rightShoulder.x, lm.leftShoulder.x)))

\* Math.max(0.06, Math.max(...headXs) - Math.min(...headXs))
HeadSpan(heads) == FMax(MIN_HEAD_SPAN, FSub(MaxX(heads), MinX(heads)))

\* Lines 1327-1351: the tiers in priority order.
SelectTier(lm, heads, hasShoulder) ==
    IF hasShoulder /\ Len(heads) > 0
    THEN TierResult(1,
             FDiv(FAdd(FMul(HeadY(heads), HEAD_WEIGHT),
                       FMul(ShoulderMidY(lm), SHOULDER_WEIGHT)),
                  ShoulderSpan(lm)),
             TIER1_MULTIPLIER)
    ELSE IF Len(heads) >= 2
    THEN TierResult(2, FDiv(HeadY(heads), HeadSpan(heads)), TIER2_MULTIPLIER)
    ELSE IF hasShoulder
    THEN TierResult(3, FDiv(ShoulderMidY(lm), ShoulderSpan(lm)), TIER3_MULTIPLIER)
    ELSE NoTier

computeTierSignal(lm) == SelectTier(lm, HeadCandidates(lm), HasShoulder(lm))

----------------------------------------------------------------------------
(* GestureRuntime and estimateGesture *)

\* null, for the fields that hold a gesture or a message.
NULL == "null"

\* number | null: <<>> is null, <<v>> is the number v.
None == <<>>
Some(v) == <<v>>

Gestures == {"IDLE", "JUMP", "DUCK"}

\* Elapsed times at or above this are all recorded as this: the program
\* compares elapsed time against DETECTION_INTERVAL_MS and DEBOUNCE_MS only.
ElapsedCap == 4 * DETECTION_INTERVAL_MS

Later(elapsed, dt) == IF elapsed + dt >= ElapsedCap THEN ElapsedCap ELSE elapsed + dt

\* sinceDetect is (current time - lastDetectAt); pendingAge is
\* (lastDetectAt - pendingSince), which is `now - runtime.pendingSince` inside
\* estimateGesture because the loop sets lastDetectAt = now before calling it.
\* Both timestamps start at 0, the time origin, which is long past when the
\* hook is first enabled.
createRuntime ==
    [baseline |-> None,
     calibrationBuffer |-> <<>>,
     stableGesture |-> "IDLE",
     pendingGesture |-> NULL,
     pendingAge |-> 0,
     missingFrames |-> 0,
     sinceDetect |-> ElapsedCap,
     lastSignal |-> None,
     driftFrames |-> 0,
     idleFrames |-> 0,
     recalibrating |-> FALSE,
     trackingTier |-> 1]

\* What estimateGesture hands back: the runtime it leaves, the gesture it
\* returns, and the classifier's candidate when the frame reached the
\* classifier (NULL when it returned earlier).
Estimate(r, g, c) == [runtime |-> r, gesture |-> g, candidate |-> c]

\* Variant: the calibration wants one sample more than `needed`.
CalibratedLate(r, buffer, needed) ==
    IF Len(buffer) > needed
    THEN [r EXCEPT !.baseline = Some(FDiv(FSum(buffer), Num(Len(buffer)))),
                   !.calibrationBuffer = <<>>,
                   !.recalibrating = FALSE,
                   !.driftFrames = 0,
                   !.idleFrames = 0]
    ELSE [r EXCEPT !.calibrationBuffer = buffer]

\* Lines 1375-1382: the buffer after the push.
Calibrated(r, buffer, needed) ==
    IF Len(buffer) >= needed
    THEN [r EXCEPT !.baseline = Some(FDiv(FSum(buffer), Num(Len(buffer)))),
                   !.calibrationBuffer = <<>>,
                   !.recalibrating = FALSE,
                   !.driftFrames = 0,
                   !.idleFrames = 0]
    ELSE [r EXCEPT !.calibrationBuffer = buffer]

\* Variant: the initial calibration takes RECALIBRATION_FRAMES samples too.
CalibrationPhaseShort(r, signal) ==
    Calibrated(r, Append(r.calibrationBuffer, signal), RECALIBRATION_FRAMES)

\* Lines 1371-1384: the calibration phase (initial or recalibration).
CalibrationPhase(r, signal) ==
    Calibrated(r, Append(r.calibrationBuffer, signal),
               IF r.recalibrating THEN RECALIBRATION_FRAMES ELSE CALIBRATION_FRAMES)

\* Lines 1389-1392.
Smoothed(baseline, signal, smoothing) ==
    FAdd(FMul(baseline, smoothing), FMul(signal, FSub(Num(1), smoothing)))

\* Variant: the smoothing is chosen from the idle frame count before the
\* frame is counted.
BaselineAdaptationLate(r, signal) ==
    IF r.stableGesture = "IDLE"
    THEN [r EXCEPT !.idleFrames = @ + 1,
                   !.baseline = Some(Smoothed(r.baseline[1], signal,
                                        IF r.idleFrames > IDLE_ACCELERATION_FRAMES
                                        THEN IDLE_SMOOTHING ELSE BASELINE_SMOOTHING))]
    ELSE [r EXCEPT !.idleFrames = 0]

\* Lines 1386-1395: baseline adaptation.
BaselineAdaptation(r, signal) ==
    IF r.stableGesture = "IDLE"
    THEN [r EXCEPT !.idleFrames = @ + 1,
                   !.baseline = Some(Smoothed(r.baseline[1], signal,
                                        IF r.idleFrames + 1 > IDLE_ACCELERATION_FRAMES
                                        THEN IDLE_SMOOTHING ELSE BASELINE_SMOOTHING))]
    ELSE [r EXCEPT !.idleFrames = 0]

\* Line 1399: the drift test.
Drifting(r, signal) ==
    /\ r.stableGesture = "IDLE"
    /\ Abs(FSub(signal, r.baseline[1])) > RECALIBRATION_DRIFT_THRESHOLD

\* Variant: a delta equal to its threshold counts as beyond it.
CandidateInclusive(jumpDelta, duckDelta, thresholdMultiplier, riseVelocity) ==
    IF \/ jumpDelta >= FMul(JUMP_THRESHOLD, thresholdMultiplier)
       \/ /\ jumpDelta >= FMul(QUICK_JUMP_THRESHOLD, thresholdMultiplier)
          /\ riseVelocity >= FMul(QUICK_JUMP_VELOCITY, thresholdMultiplier)
    THEN "JUMP"
    ELSE IF duckDelta >= FMul(DUCK_THRESHOLD, thresholdMultiplier)
    THEN "DUCK"
    ELSE "IDLE"

\* Lines 1419-1427: the raw candidate from the two deltas.
Candidate(jumpDelta, duckDelta, thresholdMultiplier, riseVelocity) ==
    IF \/ jumpDelta > FMul(JUMP_THRESHOLD, thresholdMultiplier)
       \/ /\ jumpDelta > FMul(QUICK_JUMP_THRESHOLD, thresholdMultiplier)
          /\ riseVelocity > FMul(QUICK_JUMP_VELOCITY, thresholdMultiplier)
    THEN "JUMP"
    ELSE IF duckDelta > FMul(DUCK_THRESHOLD, thresholdMultiplier)
    THEN "DUCK"
    ELSE "IDLE"

\* Lines 1411-1427.
Classify(baseline, signal, thresholdMultiplier, riseVelocity) ==
    Candidate(FSub(baseline, signal), FSub(signal, baseline),
              thresholdMultiplier, riseVelocity)

\* Variant: a frame whose candidate is the stable gesture leaves the pending
\* candidate in place.
DebounceKeepingPending(r, candidate) ==
    IF candidate = r.stableGesture
    THEN r
    ELSE IF r.pendingGesture # candidate
    THEN [r EXCEPT !.pendingGesture = candidate, !.pendingAge = 0]
    ELSE IF r.pendingAge >= DEBOUNCE_MS
    THEN [r EXCEPT !.stableGesture = candidate, !.pendingGesture = NULL,
                   !.pendingAge = 0]
    ELSE r

\* Variant: the second frame with the pending candidate commits it, whatever
\* time has passed.
DebounceWithoutWindow(r, candidate) ==
    IF candidate = r.stableGesture
    THEN [r EXCEPT !.pendingGesture = NULL, !.pendingAge = 0]
    ELSE IF r.pendingGesture # candidate
    THEN [r EXCEPT !.pendingGesture = candidate, !.pendingAge = 0]
    ELSE [r EXCEPT !.stableGesture = candidate, !.pendingGesture = NULL,
                   !.pendingAge = 0]

\* Variant: the commit leaves the pending candidate in place.
DebounceLeavingPending(r, candidate) ==
    IF candidate = r.stableGesture
    THEN [r EXCEPT !.pendingGesture = NULL, !.pendingAge = 0]
    ELSE IF r.pendingGesture # candidate
    THEN [r EXCEPT !.pendingGesture = candidate, !.pendingAge = 0]
    ELSE IF r.pendingAge >= DEBOUNCE_MS
    THEN [r EXCEPT !.stableGesture = candidate]
    ELSE r

\* Variant: a candidate that differs from the stable gesture is committed at
\* once.
DebounceImmediate(r, candidate) ==
    IF candidate = r.stableGesture
    THEN [r EXCEPT !.pendingGesture = NULL, !.pendingAge = 0]
    ELSE [r EXCEPT !.stableGesture = candidate, !.pendingGesture = NULL,
                   !.pendingAge = 0]

\* Lines 1429-1445: the debounce.  pendingSince is read only while
\* pendingGesture is a gesture, so the model keeps pendingAge at 0 while it
\* is null.
Debounce(r, candidate) ==
    IF candidate = r.stableGesture
    THEN [r EXCEPT !.pendingGesture = NULL, !.pendingAge = 0]
    ELSE IF r.pendingGesture # candidate
    THEN [r EXCEPT !.pendingGesture = candidate, !.pendingAge = 0]
    ELSE IF r.pendingAge >= DEBOUNCE_MS
    THEN [r EXCEPT !.stableGesture = candidate, !.pendingGesture = NULL,
                   !.pendingAge = 0]
    ELSE r

\* estimateGesture returns runtime.stableGesture after the debounce.
Stabilized(r, candidate) == Estimate(r, r.stableGesture, candidate)

Stabilize(r, candidate) == Stabilized(Debounce(r, candidate), candidate)

\* Lines 1411-1445.
ClassifyAndDebounce(r, signal, thresholdMultiplier, riseVelocity) ==
    Stabilize(r, Classify(r.baseline[1], signal, thresholdMultiplier, riseVelocity))

\* Variant: RECALIBRATION_FRAMES drift frames start the recalibration.
DriftCheckEarly(r, signal, thresholdMultiplier, riseVelocity) ==
    IF Drifting(r, signal)
    THEN IF r.driftFrames + 1 >= RECALIBRATION_FRAMES
         THEN Estimate([r EXCEPT !.recalibrating = TRUE,
                                 !.calibrationBuffer = <<signal>>,
                                 !.driftFrames = 0],
                       "IDLE", NULL)
         ELSE ClassifyAndDebounce([r EXCEPT !.driftFrames = @ + 1], signal,
                                  thresholdMultiplier, riseVelocity)
    ELSE ClassifyAndDebounce([r EXCEPT !.driftFrames = 0], signal,
                             thresholdMultiplier, riseVelocity)

\* Variant: the recalibration starts with an empty buffer.
DriftCheckUnseeded(r, signal, thresholdMultiplier, riseVelocity) ==
    IF Drifting(r, signal)
    THEN IF r.driftFrames + 1 >= CALIBRATION_FRAMES
         THEN Estimate([r EXCEPT !.recalibrating = TRUE,
                                 !.calibrationBuffer = <<>>,
                                 !.driftFrames = 0],
                       "IDLE", NULL)
         ELSE ClassifyAndDebounce([r EXCEPT !.driftFrames = @ + 1], signal,
                                  thresholdMultiplier, riseVelocity)
    ELSE ClassifyAndDebounce([r EXCEPT !.driftFrames = 0], signal,
                             thresholdMultiplier, riseVelocity)

\* Lines 1397-1445: drift detection, then classification.
DriftCheck(r, signal, thresholdMultiplier, riseVelocity) ==
    IF Drifting(r, signal)
    THEN IF r.driftFrames + 1 >= CALIBRATION_FRAMES
         THEN Estimate([r EXCEPT !.recalibrating = TRUE,
                                 !.calibrationBuffer = <<signal>>,
                                 !.driftFrames = 0],
                       "IDLE", NULL)
         ELSE ClassifyAndDebounce([r EXCEPT !.driftFrames = @ + 1], signal,
                                  thresholdMultiplier, riseVelocity)
    ELSE ClassifyAndDebounce([r EXCEPT !.driftFrames = 0], signal,
                             thresholdMultiplier, riseVelocity)

\* Variant: the frame that starts the recalibration leaves the baseline and
\* the idle frame count alone.
EstimateWithSignalReseedingFirst(r, signal, thresholdMultiplier, riseVelocity) ==
    IF r.baseline = None \/ r.recalibrating
    THEN Estimate(CalibrationPhase(r, signal), "IDLE", NULL)
    ELSE IF /\ Drifting(BaselineAdaptation(r, signal), signal)
            /\ r.driftFrames + 1 >= CALIBRATION_FRAMES
    THEN Estimate([r EXCEPT !.recalibrating = TRUE,
                            !.calibrationBuffer = <<signal>>,
                            !.driftFrames = 0],
                  "IDLE", NULL)
    ELSE DriftCheck(BaselineAdaptation(r, signal), signal, thresholdMultiplier,
                    riseVelocity)

\* Lines 1371-1445: a frame with a signal.
EstimateWithSignal(r, signal, thresholdMultiplier, riseVelocity) ==
    IF r.baseline = None \/ r.recalibrating
    THEN Estimate(CalibrationPhase(r, signal), "IDLE", NULL)
    ELSE DriftCheck(BaselineAdaptation(r, signal), signal, thresholdMultiplier,
                    riseVelocity)

\* Lines 1367-1368.
RiseVelocity(r, signal) ==
    IF r.lastSignal = None THEN 0 ELSE FSub(r.lastSignal[1], signal)

\* Variant: a frame without a tier starts the calibration over.
EstimateWithTierRestarting(r, tierResult) ==
    IF ~tierResult.ok
    THEN Estimate([r EXCEPT !.missingFrames = @ + 1, !.lastSignal = None,
                            !.calibrationBuffer = <<>>],
                  "IDLE", NULL)
    ELSE EstimateWithSignal([r EXCEPT !.missingFrames = 0,
                                      !.trackingTier = tierResult.tier,
                                      !.lastSignal = Some(tierResult.signal)],
                            tierResult.signal, tierResult.thresholdMultiplier,
                            RiseVelocity(r, tierResult.signal))

\* Lines 1357-1369.
EstimateWithTier(r, tierResult) ==
    IF ~tierResult.ok
    THEN Estimate([r EXCEPT !.missingFrames = @ + 1, !.lastSignal = None],
                  "IDLE", NULL)
    ELSE EstimateWithSignal([r EXCEPT !.missingFrames = 0,
                                      !.trackingTier = tierResult.tier,
                                      !.lastSignal = Some(tierResult.signal)],
                            tierResult.signal, tierResult.thresholdMultiplier,
                            RiseVelocity(r, tierResult.signal))

estimateGesture(landmarks, r) == EstimateWithTier(r, computeTierSignal(landmarks))

----------------------------------------------------------------------------
(* publish *)

INITIAL_STATE ==
    [gesture |-> "IDLE",
     status |-> "idle",
     calibrationProgress |-> 0,
     errorMessage |-> NULL,
     trackingTier |-> 1]

\* `partial.f ?? current.f`: a field that is missing or null in partial keeps
\* the current value.  A partial is a record over the fields it sets to a
\* value other than null.
Coalesce(partial, current, f) ==
    IF f \in DOMAIN partial THEN partial[f] ELSE current[f]

\* Lines 1458-1464: the record `next`.
Merged(current, partial) ==
    [gesture |-> Coalesce(partial, current, "gesture"),
     status |-> Coalesce(partial, current, "status"),
     calibrationProgress |-> Coalesce(partial, current, "calibrationProgress"),
     errorMessage |-> Coalesce(partial, current, "errorMessage"),
     trackingTier |-> Coalesce(partial, current, "trackingTier")]

\* Variant: the comparison always finds a difference.
SameRecordNever(current, next) == FALSE

\* Lines 1465-1471: the five-field comparison.
SameRecord(current, next) ==
    /\ next.gesture = current.gesture
    /\ next.status = current.status
    /\ next.calibrationProgress = current.calibrationProgress
    /\ next.errorMessage = current.errorMessage
    /\ next.trackingTier = current.trackingTier

\* Lines 1456-1476: stateRef.current after the call.
publish(current, partial) ==
    IF SameRecord(current, Merged(current, partial))
    THEN current
    ELSE Merged(current, partial)

\* Line 1475: the call reaches setState(next).
Notified(current, partial) == ~SameRecord(current, Merged(current, partial))

\* A record of the five fields as publish's argument: errorMessage: null
\* counts as not given.
Partial(g, s, p, t) ==
    [gesture |-> g, status |-> s, calibrationProgress |-> p, trackingTier |-> t]

PartialWithMessage(g, s, p, m, t) ==
    [gesture |-> g, status |-> s, calibrationProgress |-> p, errorMessage |-> m,
     trackingTier |-> t]

\* `runtime.baseline ? 1 : calibrationBuffer.length / CALIBRATION_FRAMES`
\* (a baseline of 0 is falsy).
NoPersonProgress(r) ==
    IF r.baseline # None /\ r.baseline[1] # 0
    THEN Num(1)
    ELSE FDiv(Num(Len(r.calibrationBuffer)), Num(CALIBRATION_FRAMES))

\* Variant: the no-person record leaves the published gesture as it is.
NoPersonPartialKeepingGesture(r) ==
    [status |-> "no-person", calibrationProgress |-> NoPersonProgress(r),
     trackingTier |-> r.trackingTier]

\* Lines 1566-1574 and 1582-1589.
NoPersonPartial(r) == Partial("IDLE", "no-person", NoPersonProgress(r), r.trackingTier)

\* Variant: the progress of a recalibration is counted against
\* CALIBRATION_FRAMES too.
FramePartialInitialCount(r, gesture) ==
    IF r.baseline # None /\ ~r.recalibrating
    THEN Partial(gesture, "tracking", Num(1), r.trackingTier)
    ELSE Partial(gesture, "calibrating",
                 FDiv(Num(Len(r.calibrationBuffer)), Num(CALIBRATION_FRAMES)),
                 r.trackingTier)

\* Lines 1595-1603.
FramePartial(r, gesture) ==
    IF r.baseline # None /\ ~r.recalibrating
    THEN Partial(gesture, "tracking", Num(1), r.trackingTier)
    ELSE Partial(gesture, "calibrating",
                 FDiv(Num(Len(r.calibrationBuffer)),
                      Num(IF r.recalibrating THEN RECALIBRATION_FRAMES
                          ELSE CALIBRATION_FRAMES)),
                 r.trackingTier)

\* Variant: the catch block leaves the published gesture as it is.
ErrorPartialKeepingGesture(message) ==
    [status |-> "error", calibrationProgress |-> 0, errorMessage |-> message,
     trackingTier |-> 1]

\* Lines 1604-1613: the catch block.
ErrorPartial(message) == PartialWithMessage("IDLE", "error", 0, message, 1)

----------------------------------------------------------------------------
(* The subject in front of the camera: the frames the landmarker returns *)

Visible == Lit(9, 10)
Hidden == Lit(1, 10)

\* A subject facing the camera, the head at height hy and the shoulders at sy
\* (shoulders half a frame apart), seen with the given visibilities.
Person(hy, sy, headVisibility, shoulderVisibility) ==
    LandmarkSet(Landmark(Lit(50, 100), hy, headVisibility),
                Landmark(Lit(55, 100), hy, headVisibility),
                Landmark(Lit(45, 100), hy, headVisibility),
                Landmark(Lit(75, 100), sy, shoulderVisibility),
                Landmark(Lit(25, 100), sy, shoulderVisibility))

\* The frames of the model, with the signal each yields.
FrameMid == Person(Lit(23, 100), Lit(28, 100), Visible, Visible)       \* 0.50
FrameLean == Person(Lit(20, 100), Lit(30, 100), Visible, Visible)      \* ~0.48
FrameUp == Person(Lit(8, 100), Lit(18, 100), Visible, Visible)         \* 0.25
FrameRise == Person(Lit(17, 100), Lit(22, 100), Visible, Visible)      \* 0.38
FrameDown == Person(Lit(33, 100), Lit(43, 100), Visible, Visible)      \* 0.75
FrameTop == Person(0, Lit(2, 100), Visible, Visible)                   \* ~0.02
FrameBottom == Person(Lit(45, 100), Lit(55, 100), Visible, Visible)    \* 1.00
FrameHead == Person(Lit(5, 100), Lit(30, 100), Visible, Hidden)        \* tier 2
FrameShoulder == Person(Lit(20, 100), Lit(25, 100), Hidden, Visible)   \* tier 3
FrameHidden == Person(Lit(20, 100), Lit(30, 100), Hidden, Hidden)      \* no tier

\* A pose is what the subject does over successive frames: it holds one
\* frame, or goes through a cycle of frames.
Poses ==
    [mid |-> <<FrameMid>>,
     lean |-> <<FrameLean>>,
     up |-> <<FrameUp>>,
     rise |-> <<FrameRise>>,
     down |-> <<FrameDown>>,
     head |-> <<FrameHead>>,
     shoulder |-> <<FrameShoulder>>,
     shake |-> <<FrameTop, FrameBottom>>,
     flail |-> <<FrameTop, FrameBottom, FrameHidden>>,
     flicker |-> <<FrameUp, FrameHidden>>]

\* Away from the camera the subject has no frame: the landmarker returns no
\* landmark set, or one from which no tier can be computed.
Away == "away"

\* The subject: its pose, which frame of the pose comes next, how many more
\* times it changes pose, the poses it changes to, and for how many frames in
\* a row it lets the hook idle.
SubjectAt(pose, moves, repertoire, patience) ==
    [pose |-> pose, phase |-> 1, movesLeft |-> moves, repertoire |-> repertoire,
     patience |-> patience]

\* The subject keeps its pose or, while it has moves left, takes another.
SubjectNow(s) ==
    {s} \cup { SubjectAt(p, s.movesLeft - 1, s.repertoire, s.patience) :
                 p \in {q \in s.repertoire : s.movesLeft > 0 /\ q # s.pose} }

Present(s) == {n \in SubjectNow(s) : n.pose # Away}
Absent(s) == {n \in SubjectNow(s) : n.pose = Away}

SubjectFrame(s) == Poses[s.pose][s.phase]

SubjectNext(s) == [s EXCEPT !.phase = (@ % Len(Poses[s.pose])) + 1]

\* Consecutive frames without a signal explored.
MaxMissingFrames == 22

\* The subjects of the complete hook: they start in a pose, change pose up to
\* MaxMoves times, and let the hook idle for up to MaxIdleFrames frames.
StartPoses == {"mid"}
MovePoses == {"mid", "up", Away}
MaxMoves == 2
MaxIdleFrames == 6
Subjects == {SubjectAt(p, MaxMoves, MovePoses, MaxIdleFrames) : p \in StartPoses}

\* The subjects of an undisturbed session: one hops or ducks and moves again, one
\* takes up a single other pose, one leans and stays so.
TrackedMoves == 2
TrackedIdleFrames == 17
TrackedSubjects ==
    {SubjectAt("mid", TrackedMoves, {"mid", "up", "down"}, TrackedIdleFrames),
     SubjectAt("mid", TrackedMoves - 1, {"rise", "shake", "flail", "flicker"},
               TrackedIdleFrames),
     SubjectAt("lean", 0, {}, TrackedIdleFrames)}

----------------------------------------------------------------------------
(* The history of the latest processed frames *)

\* How many frames the trail keeps, and where the run counters stop counting.
TrailLen == 3
RunCap == 5

\* frame: what the latest step of the loop met ("none" when it processed no
\*   frame); trail: for each of the latest frames, the classifier's candidate
\*   (NULL when the frame did not reach the classifier), the stable gesture
\*   after it and the published gesture after it;
\* sustained: how many latest frames in a row, each DETECTION_INTERVAL_MS after
\*   the one before, yielded the same candidate; base: the stable gesture
\*   before the first of them; fresh: that candidate was not the pending one
\*   before the first of them;
\* held: how many latest frames in a row, each DETECTION_INTERVAL_MS after the
\*   one before, reported the same signal; heldFrom: the baseline before the
\*   first of them if the hook was then tracking with stable gesture IDLE;
\* recalFrames: frames with a signal processed since recalibration began;
\* usable: frames with a signal processed since the hook was enabled, counted
\*   up to CALIBRATION_FRAMES;
\* lost: a disable discarded a baseline and no session has calibrated since;
\* notified: the latest step called setState;
\* spaced: the latest detection timestamp (line 1554) came at least
\*   DETECTION_INTERVAL_MS after the one before it;
\* creations: how many creations of the landmarker are in flight;
\* staleReturn: in the latest step a loop of a stopped session came back from
\*   ensureLandmarker.
NoHistory ==
    [frame |-> "none", trail |-> <<>>,
     sustained |-> 0, base |-> NULL, fresh |-> FALSE,
     held |-> 0, heldFrom |-> None,
     recalFrames |-> 0,
     usable |-> 0, lost |-> FALSE, notified |-> FALSE, spaced |-> TRUE,
     creations |-> 0, staleReturn |-> FALSE]

Entry(candidate, stable, gesture) ==
    [candidate |-> candidate, stable |-> stable, gesture |-> gesture]

Pushed(trail, e) ==
    IF Len(trail) < TrailLen THEN Append(trail, e) ELSE Append(Tail(trail), e)

LastCandidate(o) ==
    IF o.trail = <<>> THEN NULL ELSE o.trail[Len(o.trail)].candidate

Sustains(o, gap, candidate) ==
    /\ candidate # NULL
    /\ candidate = LastCandidate(o)
    /\ gap = DETECTION_INTERVAL_MS

Holds(o, before, gap, kind, signal) ==
    /\ kind = "signal"
    /\ o.held > 0
    /\ signal = before.lastSignal
    /\ gap = DETECTION_INTERVAL_MS

IdleBaseline(before) ==
    IF before.baseline # None /\ ~before.recalibrating /\ before.stableGesture = "IDLE"
    THEN before.baseline
    ELSE None

\* The counters stop at RunCap, where the start of the run is forgotten.
Counted(run, n, start, forgotten) ==
    IF ~run THEN <<1, start>>
    ELSE IF n + 1 >= RunCap THEN <<RunCap, forgotten>>
    ELSE <<n + 1, start>>

SustainedRun(o, before, gap, candidate) ==
    IF candidate = NULL
    THEN <<0, <<NULL, FALSE>>>>
    ELSE IF Sustains(o, gap, candidate)
    THEN Counted(TRUE, o.sustained, <<o.base, o.fresh>>, <<NULL, FALSE>>)
    ELSE Counted(FALSE, 0, <<before.stableGesture, before.pendingGesture # candidate>>,
                 <<NULL, FALSE>>)

HeldRun(o, before, gap, kind, signal) ==
    IF kind # "signal"
    THEN <<0, None>>
    ELSE IF Holds(o, before, gap, kind, signal)
    THEN Counted(TRUE, o.held, o.heldFrom, None)
    ELSE Counted(FALSE, 0, IdleBaseline(before), None)

RecalFrames(o, before, kind, after) ==
    IF before.recalibrating
    THEN IF kind = "signal" THEN o.recalFrames + 1 ELSE o.recalFrames
    ELSE 0

History(kind, entry, sustainedRun, heldRun, recalFrames) ==
    [obs EXCEPT !.frame = kind, !.trail = Pushed(obs.trail, entry),
                !.sustained = sustainedRun[1], !.base = sustainedRun[2][1],
                !.fresh = sustainedRun[2][2],
                !.held = heldRun[1], !.heldFrom = heldRun[2],
                !.recalFrames = recalFrames]

\* The history after a frame: `before` is the runtime the frame met, `gap` the
\* time since the detection before it, `after` the runtime it left.
Observed(o, before, gap, kind, after, candidate, gesture) ==
    History(kind, Entry(candidate, after.stableGesture, gesture),
            SustainedRun(o, before, gap, candidate),
            HeldRun(o, before, gap, kind, after.lastSignal),
            RecalFrames(o, before, kind, after))

\* The history after a step of the loop that processed no frame.
Unobserved(o) ==
    [o EXCEPT !.frame = "none", !.notified = FALSE, !.staleReturn = FALSE]

\* The count of frames with a signal after one more frame.
UsableAfter(o, kind) ==
    IF kind = "signal" /\ o.usable < CALIBRATION_FRAMES THEN o.usable + 1
    ELSE o.usable

\* The history of the session after a detection.
Noted(o, kind, spaced, notified) ==
    [o EXCEPT !.usable = UsableAfter(o, kind),
              !.lost = o.lost /\ UsableAfter(o, kind) < CALIBRATION_FRAMES,
              !.spaced = spaced,
              !.notified = notified,
              !.staleReturn = FALSE]

\* The history at the start of a session, and after its end.
Started(o, notified) ==
    [NoHistory EXCEPT !.lost = o.lost, !.notified = notified,
                      !.creations = o.creations]

Stopped(o, r, notified) ==
    [NoHistory EXCEPT !.lost = o.lost \/ r.baseline # None, !.notified = notified,
                      !.creations = o.creations]

\* The history after ensureLandmarker has been called, and after the creation
\* has settled with or without a suspended loop of a stopped session.
Awaited(o, starts) ==
    [o EXCEPT !.creations = IF starts /\ @ < 2 THEN @ + 1 ELSE @]

Settled(o, stale) == [o EXCEPT !.creations = 0, !.staleReturn = stale]

----------------------------------------------------------------------------
(* WelcomeScene: the challenges (src/unnamed/part_001) and the component's  *)
(* challenge phase (src/components/welcome/SkeletonCanvas.tsx)              *)

\* A PoseChallenge.  The feedback texts are transliterated.
Challenge(target, hold, timeout, success, late) ==
    [targetGesture |-> target, holdMs |-> hold, timeoutMs |-> timeout,
     successText |-> success, timeoutText |-> late]

CHALLENGES ==
    <<Challenge("IDLE", 2000, 6000, "tai bang le!", "bu cuo o!"),
      Challenge("JUMP", 0, 8000, "tiao de zhen gao!", "hao yang de!"),
      Challenge("DUCK", 0, 8000, "dun de zhen kuai!", "ji xu jia you!")>>

\* Another list of challenges: an instant challenge for IDLE, then a hold
\* challenge for JUMP.
OTHER_CHALLENGES ==
    <<Challenge("IDLE", 0, 8000, "hao!", "zai lai!"),
      Challenge("JUMP", 2000, 6000, "fei qi lai le!", "man man lai!")>>

\* The lists the matcher is run on.
ChallengeLists == {CHALLENGES, OTHER_CHALLENGES}

\* window.setTimeout(..., 1200) and setInterval(..., 200).
FeedbackDelay == 1200
TickerPeriod == 200

\* A progress value n/d, a number from 0 to 1.
NoProgress == <<0, 1>>
FullProgress == <<1, 1>>

\* Math.min(1, held / challenge.holdMs), for 0 <= held and 0 < holdMs.
HoldProgress(held, holdMs) ==
    IF held >= holdMs THEN FullProgress
    ELSE IF held = 0 THEN NoProgress
    ELSE <<held, holdMs>>

MatchResult(matched, holdProgress) ==
    [matched |-> matched, holdProgress |-> holdProgress]

\* part_001 lines 52-75.  holdStartTime is given as the time since it (None
\* for null): `now - holdStartTime`.
checkPoseMatch(challenge, currentGesture, sinceHoldStart) ==
    IF currentGesture # challenge.targetGesture
    THEN MatchResult(FALSE, NoProgress)
    ELSE IF challenge.holdMs = 0
    THEN MatchResult(TRUE, FullProgress)
    ELSE IF sinceHoldStart = None
    THEN MatchResult(FALSE, NoProgress)
    ELSE MatchResult(HoldProgress(sinceHoldStart[1], challenge.holdMs) = FullProgress,
                     HoldProgress(sinceHoldStart[1], challenge.holdMs))

\* The gesture and status of the `pose` prop.
PoseState(gesture, status) == [gesture |-> gesture, status |-> status]

\* What usePoseGesture publishes: a gesture while tracking, IDLE otherwise.
PoseStates ==
    {PoseState(g, "tracking") : g \in Gestures}
        \cup {PoseState("IDLE", s) :
                s \in {"idle", "loading", "calibrating", "no-person", "error"}}

\* The component as constructed (lines 112-123).  challengeStartRef and
\* holdStartRef are kept as the time since them; challengeStartRef starts at
\* 0, the time origin, which is long past.  feedbackTimer and ticker are the
\* time until the feedback timeout and the next call of the interval callback
\* (None: not set).  list is the CHALLENGES the component imports.
\* phaseTimer: the time until the detect phase's timeout callback runs.
\* renderPending: a callback has set state and the render it asks for, with
\* its effects, has not run yet.
WelcomeScene(list, pose) ==
    [phase |-> "detect",
     challengeIdx |-> 0,
     feedbackText |-> NULL,
     holdProgress |-> NoProgress,
     sinceHoldStart |-> None,
     sinceChallengeStart |-> list[1].timeoutMs + TickerPeriod,
     advancingRef |-> FALSE,
     feedbackTimer |-> None,
     ticker |-> None,
     renderPending |-> FALSE,
     bodyDetected |-> FALSE,
     phaseTimer |-> None,
     pose |-> pose,
     list |-> list]

\* Line 212.
currentChallenge(s) == s.list[s.challengeIdx + 1]

\* Line 255.
PoseMatches(s) ==
    /\ s.pose.gesture = currentChallenge(s).targetGesture
    /\ s.pose.status = "tracking"

\* Variant: the timeout is taken to have passed one ticker period early.
TimedOutEarly(s) ==
    s.sinceChallengeStart > currentChallenge(s).timeoutMs - TickerPeriod

\* Variant: a challenge never times out.
TimedOutNever(s) == FALSE

\* Lines 249 and 286: now - challengeStartRef.current > timeoutMs.
TimedOut(s) == s.sinceChallengeStart > currentChallenge(s).timeoutMs

\* Lines 214-223 of advanceChallenge: the feedback is shown and the feedback
\* timeout is set.
advanceChallenge(s, isTimeout) ==
    IF s.advancingRef THEN s
    ELSE [s EXCEPT !.advancingRef = TRUE,
                   !.feedbackText = IF isTimeout
                                    THEN currentChallenge(s).timeoutText
                                    ELSE currentChallenge(s).successText,
                   !.feedbackTimer = Some(FeedbackDelay)]

\* Lines 224-237: the feedback timeout's callback.
FeedbackDone(s) ==
    IF s.challengeIdx + 1 >= Len(s.list)
    THEN [s EXCEPT !.feedbackText = NULL, !.advancingRef = FALSE,
                   !.feedbackTimer = None,
                   !.phase = "ready"]
    ELSE [s EXCEPT !.feedbackText = NULL, !.advancingRef = FALSE,
                   !.feedbackTimer = None,
                   !.challengeIdx = @ + 1,
                   !.sinceHoldStart = None,
                   !.holdProgress = NoProgress,
                   !.sinceChallengeStart = 0]

\* Variant: a pose that stops matching leaves the hold start as it is.
TrackHoldCumulative(s) ==
    IF PoseMatches(s) /\ s.sinceHoldStart = None
    THEN [s EXCEPT !.sinceHoldStart = Some(0)]
    ELSE s

\* Lines 254-263.
TrackHold(s) ==
    IF PoseMatches(s)
    THEN IF s.sinceHoldStart = None
         THEN [s EXCEPT !.sinceHoldStart = Some(0)]
         ELSE s
    ELSE IF currentChallenge(s).holdMs > 0
    THEN [s EXCEPT !.sinceHoldStart = None, !.holdProgress = NoProgress]
    ELSE s

\* Lines 272-276.
Matched(s, result) ==
    IF result.matched
    THEN advanceChallenge([s EXCEPT !.holdProgress = result.holdProgress], FALSE)
    ELSE [s EXCEPT !.holdProgress = result.holdProgress]

\* Lines 265-276.
CheckMatch(s) ==
    Matched(s, checkPoseMatch(currentChallenge(s),
                              IF s.pose.status = "tracking" THEN s.pose.gesture
                              ELSE "IDLE",
                              s.sinceHoldStart))

\* Lines 243-277: the effect that checks the pose, run after a render in which
\* phase, the current challenge, pose.gesture or pose.status has changed.
MatchEffect(s) ==
    IF s.phase # "calibrate" \/ s.advancingRef THEN s
    ELSE IF TimedOut(s) THEN advanceChallenge(s, TRUE)
    ELSE CheckMatch(TrackHold(s))

\* Lines 283-289: the interval's callback.
TimeoutCheck(s) ==
    IF s.advancingRef THEN s
    ELSE IF TimedOut(s) THEN advanceChallenge(s, TRUE)
    ELSE s

\* Lines 280-292: the effect that keeps the interval, run after a render in
\* which phase or the current challenge has changed: the interval is cleared,
\* and set again unless the effect returns at line 281.
TickerEffect(s) ==
    IF s.phase # "calibrate" \/ s.advancingRef
    THEN [s EXCEPT !.ticker = None]
    ELSE [s EXCEPT !.ticker = Some(TickerPeriod)]

\* The effects of a render in which phase or the current challenge has
\* changed, in the order the component declares them.
Rendered(s) == [TickerEffect(MatchEffect(s)) EXCEPT !.renderPending = FALSE]

\* The effects of a render: those of the match effect alone when only the pose
\* has changed.
Effects(s) == IF s.renderPending THEN Rendered(s) ELSE MatchEffect(s)

\* Lines 188-191: the phase timeout's callback starts the challenge phase.
ChallengePhase(s) == [s EXCEPT !.phase = "calibrate", !.sinceChallengeStart = 0]

\* Time passing by d: times since a timestamp grow (up to where the component
\* stops telling them apart), times until a callback shrink.
Aged(since, d, cap) ==
    IF since = None THEN None
    ELSE IF since[1] + d >= cap THEN Some(cap)
    ELSE Some(since[1] + d)

Nearer(until, d) ==
    IF until = None THEN None
    ELSE IF until[1] <= d THEN Some(0)
    ELSE Some(until[1] - d)

Due(until) == until = Some(0)

SceneLater(s, d) ==
    [s EXCEPT !.sinceChallengeStart =
                  Aged(Some(@), d, currentChallenge(s).timeoutMs + TickerPeriod)[1],
              !.sinceHoldStart = Aged(@, d, currentChallenge(s).holdMs),
              !.feedbackTimer = Nearer(@, d),
              !.ticker = Nearer(@, d)]

\* What has been seen of the challenge phase (not component state):
\* matching: for how long the pose has matched the current challenge without
\*   a break (None: it does not match), counted up to the challenge's holdMs;
\* everTarget: the gesture has equalled the current challenge's target since
\*   the challenge became current;
\* interrupted: the pose has stopped matching the current challenge while it
\*   was unresolved;
\* resolved: which challenge was resolved last, and how;
\* matches: how many challenges were resolved by a match.
NoWatch ==
    [matching |-> None, everTarget |-> FALSE, interrupted |-> FALSE,
     resolved |-> None, matches |-> 0]

Resolution(s) ==
    [by |-> IF s.feedbackText = currentChallenge(s).timeoutText THEN "timeout"
            ELSE "match",
     challengeIdx |-> s.challengeIdx]

\* The watch when the challenge of s is, or becomes, current.
WatchedFresh(w, s) ==
    [w EXCEPT !.matching = IF PoseMatches(s) THEN Some(0) ELSE None,
              !.everTarget = s.pose.gesture = currentChallenge(s).targetGesture,
              !.interrupted = FALSE]

\* The watch after time d in which the pose has not changed.
WatchedLater(w, s, d) ==
    [w EXCEPT !.matching = Aged(@, d, currentChallenge(s).holdMs)]

\* The watch after the pose has changed to that of s; unresolved tells
\* whether the challenge was unresolved before.
WatchedPose(w, s, unresolved) ==
    [w EXCEPT !.matching = IF ~PoseMatches(s) THEN None
                           ELSE IF @ = None THEN Some(0) ELSE @,
              !.everTarget = @ \/ s.pose.gesture = currentChallenge(s).targetGesture,
              !.interrupted = @ \/ (unresolved /\ w.matching # None /\ ~PoseMatches(s))]

\* The watch after a step from s to t that may have resolved s's challenge.
WatchedResolution(w, s, t) ==
    IF ~s.advancingRef /\ t.advancingRef
    THEN [w EXCEPT !.resolved = Some(Resolution(t)),
                   !.matches = IF Resolution(t).by = "match" THEN @ + 1 ELSE @]
    ELSE w

----------------------------------------------------------------------------
(* usePoseGesture: the effect and the detection loop *)

\* Time between two frame callbacks: a 60 Hz display, or every other refresh.
TickSteps == {17, 34}

\* error.message of what detectForVideo and the landmarker creation throw.
DetectError == "detect failed"
InitError == "init failed"

Init ==
    /\ enabled = FALSE
    /\ runtime = createRuntime
    /\ published = INITIAL_STATE
    /\ landmarkerRef = FALSE
    /\ initPromiseRef = FALSE
    /\ loop = "none"
    /\ staleAwaiting = FALSE
    /\ video = "absent"
    /\ subject \in Subjects
    /\ obs = NoHistory
    /\ lmIn = FrameHidden
    /\ tierOut = NotRun
    /\ scene = WelcomeScene(CHALLENGES, PoseState("IDLE", "idle"))
    /\ watch = NoWatch

\* The <video> element is mounted, and later has its first frame.
VideoMount ==
    /\ video = "absent"
    /\ loop # "resumed"
    /\ video' = "loading"
    /\ obs' = Unobserved(obs)
    /\ UNCHANGED <<enabled, runtime, published, landmarkerRef, initPromiseRef, loop,
                   staleAwaiting, subject, lmIn, tierOut, sceneVars>>

VideoReady ==
    /\ video = "loading"
    /\ loop # "resumed"
    /\ video' = "ready"
    /\ obs' = Unobserved(obs)
    /\ UNCHANGED <<enabled, runtime, published, landmarkerRef, initPromiseRef, loop,
                   staleAwaiting, subject, lmIn, tierOut, sceneVars>>

\* Lines 1522-1530 and 1622-1624: the effect with enabled = true.
Enable ==
    /\ ~enabled
    /\ enabled' = TRUE
    /\ runtime' = createRuntime
    /\ published' = publish(published, Partial("IDLE", "loading", 0, 1))
    /\ loop' = "scheduled"
    /\ obs' = Started(obs, Notified(published, Partial("IDLE", "loading", 0, 1)))
    /\ UNCHANGED <<landmarkerRef, initPromiseRef, staleAwaiting, video, subject,
                   lmIn, tierOut, sceneVars>>

\* Variant: disabling pauses the session's runtime instead of discarding it.
DisablePausing ==
    /\ enabled
    /\ loop # "resumed"
    /\ enabled' = FALSE
    /\ staleAwaiting' = (staleAwaiting \/ loop = "awaiting")
    /\ loop' = "none"
    /\ published' = publish(published, Partial("IDLE", "idle", 0, 1))
    /\ obs' = Stopped(obs, runtime, Notified(published, Partial("IDLE", "idle", 0, 1)))
    /\ UNCHANGED <<runtime, landmarkerRef, initPromiseRef, video, subject, lmIn,
                   tierOut, sceneVars>>

\* Lines 1626-1632 (the cleanup: stopped = true) and then 1512-1519 (the
\* effect with enabled = false).  A loop that resumed from ensureLandmarker
\* runs to its end before any other callback.
Disable ==
    /\ enabled
    /\ loop # "resumed"
    /\ enabled' = FALSE
    /\ staleAwaiting' = (staleAwaiting \/ loop = "awaiting")
    /\ loop' = "none"
    /\ runtime' = createRuntime
    /\ published' = publish(published, Partial("IDLE", "idle", 0, 1))
    /\ obs' = Stopped(obs, runtime, Notified(published, Partial("IDLE", "idle", 0, 1)))
    /\ UNCHANGED <<landmarkerRef, initPromiseRef, video, subject, lmIn, tierOut, sceneVars>>

\* Time passes for the runtime.
Elapse(r, dt) == [r EXCEPT !.sinceDetect = Later(@, dt)]

\* Line 1554: runtime.lastDetectAt = now.
Stamp(r) ==
    [r EXCEPT !.pendingAge = IF r.pendingGesture = NULL THEN 0
                             ELSE Later(@, r.sinceDetect),
              !.sinceDetect = 0]

\* Variant: the loop detects again one display refresh after a detection.
RateLimitedBelowOneRefresh(r, dt) == Later(r.sinceDetect, dt) < 17

\* Line 1548: now - runtime.lastDetectAt < DETECTION_INTERVAL_MS, dt after the
\* frame callback before.
RateLimited(r, dt) == Later(r.sinceDetect, dt) < DETECTION_INTERVAL_MS

\* A frame callback dt after the one before comes at least
\* DETECTION_INTERVAL_MS after the latest detection.
Spaced(dt) == Later(runtime.sinceDetect, dt) >= DETECTION_INTERVAL_MS

\* Line 1535: videoRef.current is null; the loop returns without rescheduling.
TickVideoAbsent ==
    /\ loop = "scheduled"
    /\ video = "absent"
    /\ \E dt \in TickSteps : runtime' = Elapse(runtime, dt)
    /\ loop' = "none"
    /\ obs' = Unobserved(obs)
    /\ UNCHANGED <<enabled, published, landmarkerRef, initPromiseRef, staleAwaiting,
                   video, subject, lmIn, tierOut, sceneVars>>

\* Lines 1539-1544: the video has no current data yet.
TickVideoNotReady ==
    /\ loop = "scheduled"
    /\ video = "loading"
    /\ \E dt \in TickSteps : runtime' = Elapse(runtime, dt)
    /\ obs' = Unobserved(obs)
    /\ UNCHANGED <<enabled, published, landmarkerRef, initPromiseRef, loop,
                   staleAwaiting, video, subject, lmIn, tierOut, sceneVars>>

\* Lines 1546-1553: less than the detection interval since the last detection.
TickRateLimited ==
    /\ loop = "scheduled"
    /\ video = "ready"
    /\ \E dt \in TickSteps :
          /\ RateLimited(runtime, dt)
          /\ runtime' = Elapse(runtime, dt)
    /\ obs' = Unobserved(obs)
    /\ UNCHANGED <<enabled, published, landmarkerRef, initPromiseRef, loop,
                   staleAwaiting, video, subject, lmIn, tierOut, sceneVars>>

\* Variant: ensureLandmarker starts a creation whether or not one is in flight.
StartsCreationAlways(landmarker, promise) == ~landmarker

\* Lines 1479-1486: ensureLandmarker starts a creation when there is neither a
\* landmarker nor a creation in flight.
StartsCreation(landmarker, promise) == ~landmarker /\ ~promise

\* Lines 1554-1556: the landmarker does not exist yet; the loop suspends in
\* ensureLandmarker, which starts the creation unless one is in flight.
TickAwaitInit ==
    /\ loop = "scheduled"
    /\ video = "ready"
    /\ ~landmarkerRef
    /\ \E dt \in TickSteps :
          /\ ~RateLimited(runtime, dt)
          /\ runtime' = Stamp(Elapse(runtime, dt))
          /\ obs' = [Awaited(Unobserved(obs),
                              StartsCreation(landmarkerRef, initPromiseRef))
                          EXCEPT !.spaced = Spaced(dt)]
    /\ loop' = "awaiting"
    /\ initPromiseRef' = TRUE
    /\ UNCHANGED <<enabled, published, landmarkerRef, staleAwaiting, video, subject,
                   lmIn, tierOut, sceneVars>>

\* Lines 1486-1509 and 1556-1559: the creation succeeds; suspended loops of
\* stopped sessions return, the session's loop goes on with the landmarker.
InitResolve ==
    /\ initPromiseRef
    /\ initPromiseRef' = FALSE
    /\ landmarkerRef' = TRUE
    /\ staleAwaiting' = FALSE
    /\ loop' = IF loop = "awaiting" THEN "resumed" ELSE loop
    /\ \E dt \in TickSteps : runtime' = Elapse(runtime, dt)
    /\ obs' = Settled(Unobserved(obs), staleAwaiting)
    /\ UNCHANGED <<enabled, published, video, subject, lmIn, tierOut, sceneVars>>

\* Lines 1504-1508 and 1604-1620: the creation fails; every suspended loop
\* runs its catch block, and the session's loop reschedules itself.
InitReject ==
    /\ initPromiseRef
    /\ initPromiseRef' = FALSE
    /\ staleAwaiting' = FALSE
    /\ loop' = IF loop = "awaiting" THEN "scheduled" ELSE loop
    /\ \E dt \in TickSteps : runtime' = Elapse(runtime, dt)
    /\ published' = publish(published, ErrorPartial(InitError))
    /\ obs' = [Settled(Unobserved(obs), staleAwaiting) EXCEPT
                  !.notified = Notified(published, ErrorPartial(InitError))]
    /\ UNCHANGED <<enabled, landmarkerRef, video, subject, lmIn, tierOut, sceneVars>>

\* Lines 1546-1554 with the landmarker at hand, or the return from
\* ensureLandmarker at line 1556: the loop is about to call detectForVideo.
CanDetect(dt) ==
    \/ loop = "resumed"
    \/ /\ loop = "scheduled"
       /\ video = "ready"
       /\ landmarkerRef
       /\ ~RateLimited(runtime, dt)

\* The runtime at the call (lastDetectAt was set before the suspension).
Stamped(dt) == IF loop = "resumed" THEN runtime ELSE Stamp(Elapse(runtime, dt))

\* Time since the detection before this one.
Gap(dt) == IF loop = "resumed" THEN ElapsedCap ELSE Later(runtime.sinceDetect, dt)

\* What a detection leaves, and lines 1575, 1590, 1615-1619: the loop
\* reschedules itself.
Outcome(before, gap, kind, after, candidate, pub, notified) ==
    /\ runtime' = after
    /\ published' = pub
    /\ obs' = Noted(Observed(obs, before, gap, kind, after, candidate, pub.gesture),
                    kind,
                    IF loop = "resumed" THEN obs.spaced
                    ELSE gap >= DETECTION_INTERVAL_MS,
                    notified)
    /\ loop' = "scheduled"

\* A detection that ends in a call of publish.
Published(before, gap, kind, after, candidate, partial) ==
    Outcome(before, gap, kind, after, candidate, publish(published, partial),
            Notified(published, partial))

\* Lines 1561 and 1604-1613: detectForVideo throws.
DetectFault ==
    /\ \E dt \in TickSteps :
          /\ CanDetect(dt)
          /\ Published(Stamped(dt), Gap(dt), "fault", Stamped(dt), NULL,
                       ErrorPartial(DetectError))
    /\ UNCHANGED <<enabled, landmarkerRef, initPromiseRef, staleAwaiting, video,
                   subject, lmIn, tierOut, sceneVars>>

\* Variant: no-person is published once the count reaches MAX_MISSING_FRAMES.
NoLandmarksAtLimit(before, gap, after) ==
    IF after.missingFrames >= MAX_MISSING_FRAMES
    THEN Published(before, gap, "nolandmarks", after, NULL, NoPersonPartial(after))
    ELSE Outcome(before, gap, "nolandmarks", after, NULL, published, FALSE)

\* Lines 1565-1574.
NoLandmarks(before, gap, after) ==
    IF after.missingFrames > MAX_MISSING_FRAMES
    THEN Published(before, gap, "nolandmarks", after, NULL, NoPersonPartial(after))
    ELSE Outcome(before, gap, "nolandmarks", after, NULL, published, FALSE)

\* Lines 1564-1579: no landmark set (or a short one).
DetectNoLandmarks ==
    /\ \E dt \in TickSteps, s \in Absent(subject) :
          /\ CanDetect(dt)
          /\ Stamped(dt).missingFrames < MaxMissingFrames
          /\ NoLandmarks(Stamped(dt), Gap(dt),
                         [Stamped(dt) EXCEPT !.missingFrames = @ + 1])
          /\ subject' = s
    /\ UNCHANGED <<enabled, landmarkerRef, initPromiseRef, staleAwaiting, video,
                   lmIn, tierOut, sceneVars>>

\* Lines 1582-1603: what the loop publishes after estimateGesture.
Concluded(est) ==
    IF est.runtime.missingFrames > MAX_MISSING_FRAMES
    THEN NoPersonPartial(est.runtime)
    ELSE FramePartial(est.runtime, est.gesture)

Conclude(before, gap, est) ==
    /\ est.runtime.missingFrames <= MaxMissingFrames
    /\ est.runtime.idleFrames <= subject.patience
    /\ Published(before, gap,
                 IF est.runtime.lastSignal = None THEN "nosignal" ELSE "signal",
                 est.runtime, est.candidate, Concluded(est))

\* Lines 1581-1603: a landmark set.
DetectLandmarks(r, gap, landmarks) == Conclude(r, gap, estimateGesture(landmarks, r))

\* A landmark set from which no tier can be computed.
DetectHidden ==
    /\ \E dt \in TickSteps, s \in Absent(subject) :
          /\ CanDetect(dt)
          /\ DetectLandmarks(Stamped(dt), Gap(dt), FrameHidden)
          /\ subject' = s
    /\ UNCHANGED <<enabled, landmarkerRef, initPromiseRef, staleAwaiting, video,
                   lmIn, tierOut, sceneVars>>

\* The landmark set of the subject's next frame.
DetectSubject ==
    /\ \E dt \in TickSteps, s \in Present(subject) :
          /\ CanDetect(dt)
          /\ DetectLandmarks(Stamped(dt), Gap(dt), SubjectFrame(s))
          /\ subject' = SubjectNext(s)
    /\ UNCHANGED <<enabled, landmarkerRef, initPromiseRef, staleAwaiting, video,
                   lmIn, tierOut, sceneVars>>

Next ==
    \/ Enable
    \/ Disable
    \/ VideoMount
    \/ VideoReady
    \/ TickVideoAbsent
    \/ TickVideoNotReady
    \/ TickRateLimited
    \/ TickAwaitInit
    \/ InitResolve
    \/ InitReject
    \/ DetectFault
    \/ DetectNoLandmarks
    \/ DetectHidden
    \/ DetectSubject

Spec == Init /\ [][Next]_vars

----------------------------------------------------------------------------
(* A session that runs undisturbed: the hook is enabled once, the landmarker *)
(* is created, and detectForVideo does not throw                            *)

TrackingInit ==
    /\ enabled = FALSE
    /\ runtime = createRuntime
    /\ published = INITIAL_STATE
    /\ landmarkerRef = FALSE
    /\ initPromiseRef = FALSE
    /\ loop = "none"
    /\ staleAwaiting = FALSE
    /\ video = "absent"
    /\ subject \in TrackedSubjects
    /\ obs = NoHistory
    /\ lmIn = FrameHidden
    /\ tierOut = NotRun
    /\ scene = WelcomeScene(CHALLENGES, PoseState("IDLE", "idle"))
    /\ watch = NoWatch

TrackingNext ==
    \/ Enable
    \/ VideoMount
    \/ VideoReady
    \/ TickVideoAbsent
    \/ TickVideoNotReady
    \/ TickRateLimited
    \/ TickAwaitInit
    \/ InitResolve
    \/ DetectSubject

SpecTracking == TrackingInit /\ [][TrackingNext]_vars

----------------------------------------------------------------------------
(* Tier extraction on its own: every visibility pattern of the five points *)

\* Visibilities around the threshold: below it, exactly on it, above it.
Visibilities == {Lit(17, 100), MIN_VISIBILITY, Lit(9, 10)}

\* Head points and shoulders of a subject whose body is at one of two heights.
HeadHeights == {Lit(25, 100), Lit(30, 100)}
ShoulderHeights == {Lit(40, 100), Lit(45, 100)}

TierInputs ==
    { LandmarkSet(Landmark(Lit(50, 100), hy, vn),
                  Landmark(Lit(55, 100), hy, vle),
                  Landmark(Lit(45, 100), hy, vre),
                  Landmark(Lit(65, 100), sy, vls),
                  Landmark(Lit(35, 100), sy, vrs)) :
        hy \in HeadHeights, sy \in ShoulderHeights,
        vn \in Visibilities, vle \in Visibilities, vre \in Visibilities,
        vls \in Visibilities, vrs \in Visibilities }

TierInit ==
    /\ lmIn \in TierInputs
    /\ tierOut = NotRun
    /\ enabled = FALSE
    /\ runtime = createRuntime
    /\ published = INITIAL_STATE
    /\ landmarkerRef = FALSE
    /\ initPromiseRef = FALSE
    /\ loop = "none"
    /\ staleAwaiting = FALSE
    /\ video = "absent"
    /\ subject = SubjectAt("mid", 0, {}, 0)
    /\ obs = NoHistory
    /\ scene = WelcomeScene(CHALLENGES, PoseState("IDLE", "idle"))
    /\ watch = NoWatch

TierExtract ==
    /\ tierOut = NotRun
    /\ tierOut' = computeTierSignal(lmIn)
    /\ UNCHANGED <<lmIn, hookVars, sceneVars>>

TierNext == TierExtract

SpecTier == TierInit /\ [][TierNext]_vars

----------------------------------------------------------------------------
(* The challenge phase of WelcomeScene, from its start, under every stream   *)
(* of poses                                                                  *)

\* Time passes in steps of this many milliseconds.
ClockSteps == {100}

\* The poses with which the detect phase can end (line 174: hasBody).
EntryPoses == {p \in PoseStates : p.status \in {"calibrating", "tracking"}}

\* The component when the challenge phase has started and the effects of the
\* render have run.
Entering(list, pose) == ChallengePhase(WelcomeScene(list, pose))

Entered(list, pose) == Rendered(Entering(list, pose))

ChallengeInit ==
    /\ \E list \in ChallengeLists, pose \in EntryPoses :
          /\ scene = Entered(list, pose)
          /\ watch = WatchedResolution(WatchedFresh(NoWatch, Entering(list, pose)),
                                       Entering(list, pose), Entered(list, pose))
    /\ enabled = FALSE
    /\ runtime = createRuntime
    /\ published = INITIAL_STATE
    /\ landmarkerRef = FALSE
    /\ initPromiseRef = FALSE
    /\ loop = "none"
    /\ staleAwaiting = FALSE
    /\ video = "absent"
    /\ subject = SubjectAt("mid", 0, {}, 0)
    /\ obs = NoHistory
    /\ lmIn = FrameHidden
    /\ tierOut = NotRun

\* The watch after a render in which the pose has changed from that of s to
\* that of t, and that has left the component as u.
WatchedChange(w, s, t, u) ==
    IF s.phase # "calibrate" THEN w
    ELSE IF s.renderPending THEN WatchedResolution(WatchedFresh(w, t), t, u)
    ELSE WatchedResolution(WatchedPose(w, t, ~s.advancingRef), t, u)

\* usePoseGesture publishes another gesture or status; the component renders
\* and the effect of lines 243-277 runs, with the other effects if a render
\* was pending.
PoseChange ==
    /\ \E p \in PoseStates \ {scene.pose} :
          /\ scene' = Effects([scene EXCEPT !.pose = p])
          /\ watch' = WatchedChange(watch, scene, [scene EXCEPT !.pose = p], scene')
    /\ UNCHANGED <<hookVars, tierVars>>

\* Time passes while no callback is due and no render is pending.
Pass ==
    /\ scene.phase = "calibrate" \/ scene.feedbackTimer # None
    /\ ~scene.renderPending
    /\ ~Due(scene.feedbackTimer)
    /\ ~Due(scene.ticker)
    /\ \E d \in ClockSteps :
          /\ scene' = SceneLater(scene, d)
          /\ watch' = WatchedLater(watch, scene, d)
    /\ UNCHANGED <<hookVars, tierVars>>

\* Lines 283-289: the interval's callback runs.
TickerFires ==
    /\ Due(scene.ticker)
    /\ scene' = [TimeoutCheck(scene) EXCEPT !.ticker = Some(TickerPeriod)]
    /\ watch' = WatchedResolution(watch, scene, scene')
    /\ UNCHANGED <<hookVars, tierVars>>

\* The watch after the feedback: s is the component the callback leaves, t
\* the component after the effects of the render.
WatchedNext(w, s, t) ==
    IF s.phase # "calibrate" THEN w
    ELSE WatchedResolution(WatchedFresh(w, s), s, t)

\* Lines 224-237: the feedback timeout's callback runs; the state it sets
\* asks for a render.
FeedbackFires ==
    /\ Due(scene.feedbackTimer)
    /\ scene' = [FeedbackDone(scene) EXCEPT !.renderPending = TRUE]
    /\ watch' = watch
    /\ UNCHANGED <<hookVars, tierVars>>

\* The render a callback has asked for, and its effects (lines 243-292): until
\* then the interval set by the render before is still running.
Render ==
    /\ scene.renderPending
    /\ scene' = Rendered(scene)
    /\ watch' = WatchedNext(watch, scene, scene')
    /\ UNCHANGED <<hookVars, tierVars>>

ChallengeNext ==
    \/ PoseChange
    \/ Pass
    \/ TickerFires
    \/ FeedbackFires
    \/ Render

SpecChallenges == ChallengeInit /\ [][ChallengeNext]_vars

\* The timers and the interval keep firing, and time keeps passing.
SpecChallengesLive ==
    /\ ChallengeInit
    /\ [][ChallengeNext]_vars
    /\ WF_vars(Pass)
    /\ WF_vars(TickerFires)
    /\ WF_vars(FeedbackFires)
    /\ WF_vars(Render)

----------------------------------------------------------------------------
(* Properties *)

\* The k-th latest entry of the trail (0 is the latest frame).
Back(k) == obs.trail[Len(obs.trail) - k]

\* The signal of the frame the step processed.
SignalNow == runtime'.lastSignal[1]

\* C1: the published gesture is IDLE, JUMP or DUCK, and it is IDLE whenever
\* the published status is idle, loading, calibrating, no-person or error: a
\* gesture other than IDLE is published only together with status tracking.
GestureOnlyWhileTracking ==
    /\ published.gesture \in {"IDLE", "JUMP", "DUCK"}
    /\ published.status \in {"idle", "loading", "calibrating", "no-person", "error"}
          => published.gesture = "IDLE"
    /\ published.gesture # "IDLE" => published.status = "tracking"

\* The stable gesture is JUMP and the hook has published no-person.
JumpThenNoPerson ==
    /\ runtime.stableGesture = "JUMP"
    /\ published.status = "no-person"
    /\ published.gesture = "IDLE"

\* C2: when a frame whose candidate equals the stable gesture G is followed by
\* one frame with another candidate and then by a frame with candidate G, the
\* stable gesture and the published gesture are G after each of the three
\* frames, and no candidate is pending after the third.
SingleFrameCandidateReverts ==
    ( /\ Len(obs.trail) >= 3
      /\ Back(2).candidate = Back(2).stable
      /\ Back(1).candidate \notin {NULL, Back(2).stable}
      /\ Back(0).candidate = Back(2).stable )
    => /\ \A k \in 0..2 : /\ Back(k).stable = Back(2).stable
                          /\ Back(k).gesture = Back(2).stable
       /\ runtime.pendingGesture = NULL

\* Idle, one frame with candidate JUMP, idle again.
JumpForOneFrame ==
    /\ Len(obs.trail) >= 3
    /\ Back(2).candidate = "IDLE" /\ Back(2).stable = "IDLE"
    /\ Back(1).candidate = "JUMP"
    /\ Back(0).candidate = "IDLE"
    /\ obs.frame = "signal"

SustainedRiseJumps ==
    ( /\ obs.held = 4
      /\ obs.heldFrom = Some(Lit(50, 100))
      /\ runtime.lastSignal = Some(Lit(38, 100))
      /\ runtime.trackingTier = 1 )
    => published.gesture = "JUMP"

\* C5 (as amended): during the initial calibration each of the first 14
\* frames with a signal leaves the baseline uninitialized and publishes
\* status calibrating; the 15th publishes status tracking with progress 1 and
\* gesture IDLE and, when all 15 reported the same signal s, sets the baseline
\* to their mean as computed in floating point, which is s up to the rounding
\* of the 14 additions and the division.
CalibrationCompletes ==
    [][ (runtime.baseline = None /\ obs'.frame = "signal")
        => IF Len(runtime.calibrationBuffer) < 14
           THEN /\ runtime'.baseline = None
                /\ runtime'.calibrationBuffer =
                       Append(runtime.calibrationBuffer, SignalNow)
                /\ published'.status = "calibrating"
           ELSE /\ runtime'.baseline # None
                /\ published'.status = "tracking"
                /\ published'.calibrationProgress = Num(1)
                /\ published'.gesture = "IDLE"
                /\ (\A i \in 1..14 : runtime.calibrationBuffer[i] = SignalNow)
                      => Abs(runtime'.baseline[1] - SignalNow) * (TwoP - 15)
                             <= 15 * SignalNow ]_vars

\* The 15th frame of a constant signal has set a baseline other than the
\* signal.
CalibratedOffSignal ==
    /\ obs.frame = "signal"
    /\ obs.held = RunCap
    /\ obs.recalFrames = 0
    /\ LastCandidate(obs) = NULL
    /\ runtime.baseline # None
    /\ runtime.baseline # runtime.lastSignal
    /\ ~runtime.recalibrating
    /\ published.status = "tracking"

\* C5 (as stated): the 15th frame sets the baseline to exactly s.
CalibrationYieldsSignal ==
    [][ ( /\ runtime.baseline = None
          /\ obs'.frame = "signal"
          /\ Len(runtime.calibrationBuffer) = 14
          /\ \A i \in 1..14 : runtime.calibrationBuffer[i] = SignalNow )
        => runtime'.baseline = Some(SignalNow) ]_vars

\* C6: a frame without a signal, of either kind, adds one to the count of
\* missing frames; it publishes status no-person, with gesture IDLE, when the
\* count has passed 20 and does not publish no-person while the count is at
\* most 20; a frame with a signal sets the count to zero.
MissingFramesRule ==
    [][ /\ obs'.frame \in {"nolandmarks", "nosignal"}
           => /\ runtime'.missingFrames = runtime.missingFrames + 1
              /\ IF runtime'.missingFrames > 20
                 THEN published'.status = "no-person" /\ published'.gesture = "IDLE"
                 ELSE published'.status # "no-person"
        /\ obs'.frame = "signal" => runtime'.missingFrames = 0
        /\ runtime'.missingFrames > runtime.missingFrames
           => obs'.frame \in {"nolandmarks", "nosignal"} ]_vars

\* The 21st missing frame in a row has published no-person: the first twenty
\* came without landmarks (nothing was published over the stable JUMP), the
\* last with landmarks that yield no tier.
NoPersonAfterMixedRun ==
    /\ runtime.missingFrames = 21
    /\ published.status = "no-person"
    /\ Len(obs.trail) >= 2
    /\ Back(1).stable = "JUMP" /\ Back(1).gesture = "JUMP"
    /\ obs.frame = "nosignal"

\* C7: a frame with a signal, met while calibrated, counts as a drift frame
\* when the stable gesture is IDLE and |signal - baseline| exceeds 0.35; any
\* other such frame sets the count of drift frames to zero; the 15th drift
\* frame in a row sets recalibrating, leaves the buffer holding exactly its
\* sample, and publishes status calibrating with gesture IDLE.
DriftTriggersRecalibration ==
    [][ (obs'.frame = "signal" /\ runtime.baseline # None /\ ~runtime.recalibrating)
        => IF /\ runtime.stableGesture = "IDLE"
              /\ Abs(FSub(SignalNow, runtime'.baseline[1])) > Lit(35, 100)
           THEN IF runtime.driftFrames = 14
                THEN /\ runtime'.recalibrating
                     /\ runtime'.calibrationBuffer = <<SignalNow>>
                     /\ published'.status = "calibrating"
                     /\ published'.gesture = "IDLE"
                ELSE /\ runtime'.driftFrames = runtime.driftFrames + 1
                     /\ ~runtime'.recalibrating
           ELSE /\ runtime'.driftFrames = 0
                /\ ~runtime'.recalibrating ]_vars

\* The 15th drift frame has started a recalibration.
RecalibrationStarted ==
    /\ runtime.recalibrating
    /\ Len(runtime.calibrationBuffer) = 1
    /\ obs.recalFrames = 0
    /\ obs.frame = "signal"
    /\ published.status = "calibrating"

\* C8 (as amended): while recalibrating, each frame with a signal adds its
\* sample to the buffer, and the ninth one after the frame that started the
\* recalibration completes it: the baseline becomes the mean of the ten
\* samples, the buffer is emptied, recalibrating is cleared and the status
\* published is tracking; every other step leaves the buffer, the baseline
\* and the mode as they are.
RecalibrationCompletes ==
    [][ runtime.recalibrating
        => IF obs'.frame = "signal"
           THEN IF obs.recalFrames = 8
                THEN /\ runtime'.baseline =
                           Some(FDiv(FSum(Append(runtime.calibrationBuffer, SignalNow)),
                                     Num(10)))
                     /\ runtime'.calibrationBuffer = <<>>
                     /\ ~runtime'.recalibrating
                     /\ published'.status = "tracking"
                ELSE /\ obs.recalFrames < 8
                     /\ runtime'.recalibrating
                     /\ runtime'.calibrationBuffer =
                            Append(runtime.calibrationBuffer, SignalNow)
                     /\ runtime'.baseline = runtime.baseline
           ELSE /\ runtime'.recalibrating
                /\ runtime'.calibrationBuffer = runtime.calibrationBuffer
                /\ runtime'.baseline = runtime.baseline ]_vars

\* A recalibration interleaved with frames without a signal has completed.
RecalibrationCompleted ==
    /\ ~runtime.recalibrating
    /\ obs.recalFrames = 9
    /\ obs.frame = "signal"
    /\ subject.pose = "flail"
    /\ published.status = "tracking"

\* C8 (as stated): the recalibration completes on the tenth frame with a
\* signal after the frame that started it.
RecalibrationCompletesOnTenth ==
    [][ (runtime.recalibrating /\ ~runtime'.recalibrating)
        => obs'.recalFrames = 10 ]_vars

\* C10: with a point usable when its visibility is at least 0.18, the result
\* is tier 1 with multiplier 1.0 iff both shoulders and a head point are
\* usable, tier 2 with multiplier 1.2 iff not both shoulders and at least two
\* head points are, tier 3 with multiplier 0.85 iff both shoulders and no head
\* point are, and no tier iff fewer than two head points and not both
\* shoulders are.
UsableHeadPoints ==
    Cardinality({p \in {"nose", "leftEar", "rightEar"} :
                   lmIn[p].visibility >= Lit(18, 100)})

BothShouldersUsable ==
    /\ lmIn.leftShoulder.visibility >= Lit(18, 100)
    /\ lmIn.rightShoulder.visibility >= Lit(18, 100)

TierIs(tier, multiplier) ==
    /\ tierOut.ok
    /\ tierOut.tier = tier
    /\ tierOut.thresholdMultiplier = multiplier

TierTable ==
    tierOut # NotRun
    => /\ TierIs(1, Lit(10, 10)) <=> (BothShouldersUsable /\ UsableHeadPoints >= 1)
       /\ TierIs(2, Lit(12, 10)) <=> (~BothShouldersUsable /\ UsableHeadPoints >= 2)
       /\ TierIs(3, Lit(85, 100)) <=> (BothShouldersUsable /\ UsableHeadPoints = 0)
       /\ ~tierOut.ok <=> (~BothShouldersUsable /\ UsableHeadPoints < 2)

\* Tier 1 from a nose and two shoulders seen with visibility exactly 0.18.
TierOneOnTheBoundary ==
    /\ tierOut # NotRun
    /\ lmIn.nose.visibility = Lit(18, 100)
    /\ lmIn.leftEar.visibility < Lit(18, 100)
    /\ lmIn.rightEar.visibility < Lit(18, 100)
    /\ lmIn.leftShoulder.visibility = Lit(18, 100)
    /\ lmIn.rightShoulder.visibility = Lit(18, 100)
    /\ TierIs(1, Lit(10, 10))

\* C11: while the hook is disabled the runtime holds nothing (no baseline, an
\* empty calibration buffer, stable gesture IDLE, no pending candidate, no
\* missing frames, not recalibrating); and in a session the runtime has a
\* baseline, and the published status is tracking, only once 15 frames with a
\* signal have been processed since the hook was enabled, whatever the
\* sessions before had calibrated.
DisableDiscardsRuntime ==
    /\ ~enabled => /\ runtime.baseline = None
                   /\ runtime.calibrationBuffer = <<>>
                   /\ runtime.stableGesture = "IDLE"
                   /\ runtime.pendingGesture = NULL
                   /\ runtime.missingFrames = 0
                   /\ ~runtime.recalibrating
    /\ obs.usable < 15 => /\ runtime.baseline = None
                          /\ published.status # "tracking"
                          /\ Len(runtime.calibrationBuffer) = obs.usable

\* A session that follows one whose baseline was discarded has processed 14
\* frames with a signal and is still calibrating.
RecalibratingFromScratch ==
    /\ enabled
    /\ obs.lost
    /\ obs.usable = 14
    /\ published.status = "calibrating"

\* C12: a step emits a notification (setState) exactly when it changes the
\* published record: a publish call whose resulting record equals the record
\* published before in all five fields emits none and leaves the record as it
\* is.
PublishDedupes ==
    [][ obs'.notified <=> published' # published ]_vars

\* A frame with a signal, which always ends in a publish call, has emitted no
\* notification.
FramePublishedNothingNew ==
    /\ obs.frame = "signal"
    /\ ~obs.notified
    /\ published.status = "tracking"

\* C13: every detection timestamp is at least 34 ms after the one before it,
\* and a frame callback that comes less than 34 ms after the latest detection
\* leaves the runtime (but for the passing of time) and the published record
\* as they are, processes no frame and emits no notification.
DetectionsSpaced ==
    [][ /\ obs'.spaced
        /\ ( /\ loop = "scheduled"
              /\ ~(initPromiseRef /\ ~initPromiseRef')
              /\ runtime'.sinceDetect > runtime.sinceDetect
              /\ runtime'.sinceDetect < 34 )
           => /\ runtime' = [runtime EXCEPT !.sinceDetect = runtime'.sinceDetect]
              /\ published' = published
              /\ obs'.frame = "none"
              /\ ~obs'.notified ]_vars

\* A frame callback 17 ms after a detection, in a tracking session, has been
\* skipped.
TickSkipped ==
    /\ enabled
    /\ loop = "scheduled"
    /\ landmarkerRef
    /\ runtime.sinceDetect = 17
    /\ obs.frame = "none"
    /\ published.status = "tracking"

\* C14 (as stated): once the creation of the landmarker has failed and status
\* error has been published with its message, the status stays error and no
\* creation is started for as long as the hook stays enabled.
InitFailureIsTerminal ==
    [][ ( /\ enabled /\ enabled'
          /\ published.status = "error"
          /\ published.errorMessage = InitError )
        => /\ published'.status = "error"
           /\ ~initPromiseRef' ]_vars

\* C15: a detection fault publishes status error with gesture IDLE and leaves
\* the baseline, the calibration buffer, the recalibrating flag, the stable
\* gesture, the pending candidate and the count of missing frames as they
\* are; the first frame with a signal processed while status error is
\* published goes on from the calibration state it meets: it publishes
\* calibrating while that calibration lacks samples, and tracking when it
\* completes it or when the runtime is calibrated and the frame starts no
\* recalibration.
FaultPreservesCalibration ==
    [][ /\ obs'.frame = "fault"
           => /\ published'.status = "error"
              /\ published'.gesture = "IDLE"
              /\ runtime'.baseline = runtime.baseline
              /\ runtime'.calibrationBuffer = runtime.calibrationBuffer
              /\ runtime'.recalibrating = runtime.recalibrating
              /\ runtime'.stableGesture = runtime.stableGesture
              /\ runtime'.pendingGesture = runtime.pendingGesture
              /\ runtime'.missingFrames = runtime.missingFrames
        /\ (published.status = "error" /\ obs'.frame = "signal")
           => IF runtime.baseline = None \/ runtime.recalibrating
              THEN IF Len(runtime.calibrationBuffer) + 1
                         < (IF runtime.recalibrating THEN 10 ELSE 15)
                   THEN /\ published'.status = "calibrating"
                        /\ runtime'.calibrationBuffer =
                               Append(runtime.calibrationBuffer, SignalNow)
                   ELSE published'.status = "tracking"
              ELSE published'.status =
                      IF runtime'.recalibrating THEN "calibrating" ELSE "tracking" ]_vars

\* A fault has struck a calibrated runtime whose stable gesture is JUMP.
FaultWhileJumping ==
    /\ obs.frame = "fault"
    /\ published.status = "error"
    /\ published.gesture = "IDLE"
    /\ runtime.baseline # None
    /\ runtime.stableGesture = "JUMP"

\* The current challenge of s is instant and times out after 8000 ms.
InstantWithTimeout8000(s) ==
    /\ s.phase = "calibrate"
    /\ currentChallenge(s).holdMs = 0
    /\ currentChallenge(s).timeoutMs = 8000

\* The step resolves the challenge that is current after it.
Resolves ==
    /\ scene'.advancingRef
    /\ ~scene.advancingRef \/ scene'.challengeIdx # scene.challengeIdx

\* C16: an instant challenge with a timeout of 8000 ms, during which the
\* published gesture has never equalled the target, is resolved only with the
\* timeout text and only 8000 ms or more after it became current; while it is
\* unresolved and more than 8000 ms old, the next call of the interval's
\* callback comes within one period of the 8000 ms; the index changes only by
\* one, when the feedback timeout fires; and
\* during the feedback nothing shows another text, restarts the feedback
\* timeout or resolves the challenge again.
InstantChallengeTimesOut ==
    [][ /\ (InstantWithTimeout8000(scene') /\ ~watch'.everTarget)
           => /\ Resolves
                 => /\ scene'.feedbackText = currentChallenge(scene').timeoutText
                    /\ scene'.sinceChallengeStart >= 8000
                    /\ watch'.resolved # None
                    /\ watch'.resolved[1].by = "timeout"
              /\ (~scene'.advancingRef /\ scene'.sinceChallengeStart > 8000)
                 => /\ scene'.ticker # None
                    /\ scene'.sinceChallengeStart + scene'.ticker[1]
                           <= 8000 + TickerPeriod
        /\ scene'.challengeIdx # scene.challengeIdx
           => /\ scene'.challengeIdx = scene.challengeIdx + 1
              /\ scene.advancingRef
              /\ Due(scene.feedbackTimer)
        /\ (scene.advancingRef /\ ~Due(scene.feedbackTimer))
           => /\ scene'.advancingRef
              /\ scene'.challengeIdx = scene.challengeIdx
              /\ scene'.feedbackText = scene.feedbackText
              /\ scene'.feedbackTimer[1] <= scene.feedbackTimer[1]
              /\ watch'.resolved = watch.resolved
              /\ watch'.matches = watch.matches ]_vars

\* An instant challenge with a timeout of 8000 ms has timed out, the gesture
\* never having equalled its target, and during the feedback a call of the
\* interval's callback is due.
TimedOutOnce ==
    /\ InstantWithTimeout8000(scene)
    /\ ~watch.everTarget
    /\ scene.advancingRef
    /\ scene.feedbackText = currentChallenge(scene).timeoutText
    /\ scene.feedbackTimer # None
    /\ scene.feedbackTimer[1] < FeedbackDelay
    /\ Due(scene.ticker)

\* The current challenge of s is a hold challenge.
HoldChallenge(s) ==
    /\ s.phase = "calibrate"
    /\ currentChallenge(s).holdMs > 0

\* The step resolves the challenge that is current after it, by a match.
ResolvesByMatch ==
    /\ Resolves
    /\ scene'.feedbackText = currentChallenge(scene').successText

\* The times since the hold start that checkPoseMatch can be given for
\* challenge c.
HoldStarts(c) == {None} \cup {Some(h) : h \in {n * 100 : n \in 0..(c.holdMs \div 100)}}

\* checkPoseMatch reports a match of a hold challenge only for a hold start
\* that is holdMs old or older.
MatchNeedsFullHold ==
    \A list \in ChallengeLists : \A i \in 1..Len(list) :
        list[i].holdMs > 0
        => \A h \in HoldStarts(list[i]) : \A g \in Gestures :
              checkPoseMatch(list[i], g, h).matched
              <=> (g = list[i].targetGesture /\ h # None /\ h[1] >= list[i].holdMs)

\* The pose of the step's first state matches the challenge and that of its
\* second state does not match the same challenge.
Interrupts ==
    /\ scene'.challengeIdx = scene.challengeIdx
    /\ PoseMatches(scene)
    /\ ~PoseMatches(scene')

\* C17 (as stated): for a hold challenge, whenever the pose stops matching
\* (the gesture stops equalling the target or the status stops being
\* tracking), the hold start is cleared and holdProgress becomes 0; and the
\* challenge is resolved as matched only when the pose has matched without a
\* break for holdMs.
HoldResetOnEveryInterruption ==
    [][ /\ (HoldChallenge(scene) /\ Interrupts)
           => /\ scene'.sinceHoldStart = None
              /\ scene'.holdProgress = NoProgress
        /\ (HoldChallenge(scene') /\ ResolvesByMatch)
           => watch'.matching = Some(currentChallenge(scene').holdMs) ]_vars

\* C17 (amended): for a hold challenge that is unresolved and whose timeout
\* has not passed, whenever the pose stops matching, the hold start is cleared
\* and holdProgress becomes 0; in such a challenge, once rendered, the hold
\* start is the start of the unbroken span for which the pose has matched, and
\* is not set while the pose does not match; checkPoseMatch reports a match only for a hold
\* start that is holdMs old; and the challenge is resolved as matched only
\* when the pose has matched without a break for holdMs.
HoldResetOnInterruption ==
    [][ /\ MatchNeedsFullHold
        /\ (HoldChallenge(scene) /\ ~scene.renderPending /\ Interrupts
                /\ ~scene'.advancingRef /\ ~TimedOut(scene'))
           => /\ scene'.sinceHoldStart = None
              /\ scene'.holdProgress = NoProgress
              /\ watch'.interrupted
        /\ (HoldChallenge(scene') /\ ~scene'.renderPending
                /\ ~scene'.advancingRef /\ ~TimedOut(scene'))
           => /\ scene'.sinceHoldStart = watch'.matching
              /\ ~PoseMatches(scene') => scene'.holdProgress = NoProgress
        /\ (HoldChallenge(scene') /\ ResolvesByMatch)
           => watch'.matching = Some(currentChallenge(scene').holdMs) ]_vars

\* In a hold challenge older than its holdMs, the pose has matched, stopped
\* matching, and has now matched again for 500 ms; the hold start is 500 ms
\* old.
HoldStartedAfresh ==
    /\ HoldChallenge(scene)
    /\ ~scene.advancingRef
    /\ ~TimedOut(scene)
    /\ watch.interrupted
    /\ scene.sinceChallengeStart > currentChallenge(scene).holdMs
    /\ scene.sinceHoldStart = Some(500)
    /\ watch.matching = Some(500)

\* C18 (as stated): in a hold challenge whose timeout exceeds its holdMs, once
\* the published pose has matched, unchanged, for holdMs from the hold start,
\* and the timeout has not passed, the challenge is resolved as matched: the
\* success text is shown.
SteadyHoldMatches ==
    ( /\ HoldChallenge(scene)
      /\ currentChallenge(scene).timeoutMs > currentChallenge(scene).holdMs
      /\ watch.matching = Some(currentChallenge(scene).holdMs)
      /\ scene.sinceHoldStart = Some(currentChallenge(scene).holdMs)
      /\ ~TimedOut(scene) )
    => /\ scene.advancingRef
       /\ scene.feedbackText = currentChallenge(scene).successText

\* C19 (as stated): an instant challenge, whatever its target, is resolved as
\* matched only by a pose whose gesture equals the target and whose status is
\* tracking.
InstantMatchOnlyWhileTracking ==
    [][ (scene'.phase = "calibrate" /\ currentChallenge(scene').holdMs = 0
             /\ ResolvesByMatch)
        => /\ scene'.pose.gesture = currentChallenge(scene').targetGesture
           /\ scene'.pose.status = "tracking" ]_vars

\* The last challenge has been resolved and the phase is ready.
SequenceDone ==
    /\ scene.phase = "ready"
    /\ scene.challengeIdx + 1 = Len(scene.list)
    /\ watch.resolved # None
    /\ watch.resolved[1].challengeIdx = scene.challengeIdx

\* C20: from the start of the challenge phase, under every stream of
\* published poses, while time passes and the interval's callback and the
\* feedback timeout keep firing, every challenge is resolved and the phase
\* eventually becomes ready.
SequenceReachesReady == <>SequenceDone

\* The phase has become ready without any challenge having been matched.
ReadyWithoutAMatch ==
    /\ SequenceDone
    /\ watch.matches = 0
    /\ watch.resolved[1].by = "timeout"

\* The step calls advanceChallenge on a challenge that is not being resolved.
Advances == ~scene.advancingRef /\ scene'.advancingRef

\* C21 (as stated): the index changes only by one, when the feedback of a
\* resolved challenge ends, and stays below the number of challenges; the end
\* of the last challenge's feedback sets the phase to ready; and once the
\* phase is ready it stays ready, no challenge is resolved and no feedback is
\* shown.
ReadyIsTerminal ==
    [][ /\ scene'.challengeIdx < Len(scene'.list)
        /\ scene'.challengeIdx # scene.challengeIdx
           => /\ scene'.challengeIdx = scene.challengeIdx + 1
              /\ scene.advancingRef
              /\ Due(scene.feedbackTimer)
        /\ (scene.phase = "calibrate" /\ scene.advancingRef /\ ~scene'.advancingRef
                /\ scene.challengeIdx + 1 = Len(scene.list))
           => scene'.phase = "ready"
        /\ scene.phase = "ready"
           => /\ scene'.phase = "ready"
              /\ ~Advances
              /\ scene'.feedbackText = NULL
              /\ watch'.resolved = watch.resolved ]_vars

\* C22 (as stated): the published status changes from idle only to loading;
\* from loading only to calibrating, error or idle; to no-person only from
\* calibrating or tracking; and from no-person only to calibrating, tracking
\* or idle.
StatusMachine ==
    [][ published'.status # published.status
        => /\ published.status = "idle" => published'.status = "loading"
           /\ published.status = "loading"
              => published'.status \in {"calibrating", "error", "idle"}
           /\ published'.status = "no-person"
              => published.status \in {"calibrating", "tracking"}
           /\ published.status = "no-person"
              => published'.status \in {"calibrating", "tracking", "idle"} ]_vars

\* C23: at most one creation of the landmarker is in flight; a frame is
\* processed only by the loop of the enabled session, from a frame callback or
\* on its return from ensureLandmarker, in one step after which the loop is
\* scheduled again; no frame is processed while that loop is suspended; and a
\* loop of a stopped session that comes back from ensureLandmarker processes
\* no frame and leaves the runtime as it is.
SingleDetectionSingleInit ==
    [][ /\ obs'.creations <= 1
        /\ initPromiseRef' <=> obs'.creations = 1
        /\ obs'.frame # "none"
           => /\ enabled
              /\ loop \in {"scheduled", "resumed"}
              /\ loop' = "scheduled"
              /\ ~obs'.staleReturn
        /\ loop = "awaiting" => obs'.frame = "none"
        /\ obs'.staleReturn
           => /\ obs'.frame = "none"
              /\ [runtime' EXCEPT !.sinceDetect = runtime.sinceDetect] = runtime ]_vars

\* A loop of a stopped session has come back from ensureLandmarker together
\* with the loop of the session enabled after it, which goes on to detect.
StaleLoopReturned ==
    /\ enabled
    /\ obs.staleReturn
    /\ loop = "resumed"
    /\ landmarkerRef

\* C24 (as stated): after a frame without a usable signal (no landmark set, or
\* a landmark set from which no tier can be computed) the stored previous
\* signal is null, and the first frame with a signal after it is classified
\* with rise velocity 0.
NoSignalClearsPrevious ==
    [][ /\ obs'.frame \in {"nolandmarks", "nosignal"}
           => runtime'.lastSignal = None
        /\ (obs.frame \in {"nolandmarks", "nosignal"} /\ obs'.frame = "signal")
           => RiseVelocity(runtime, runtime'.lastSignal[1]) = 0 ]_vars

\* The latest frame had no usable signal: no landmark set, or no tier.
NoSignalFrame(o) == o.frame \in {"nolandmarks", "nosignal"}

\* C25: a frame without a usable signal, below or above the occlusion
\* threshold, leaves the baseline, the calibration buffer, the recalibrating
\* flag, the drift and idle counters, the stable gesture, the pending
\* candidate with its timestamp and the tracking tier as they are, and adds
\* one to the count of missing frames; the first frame with a signal after it
\* adds its sample to the calibration buffer it finds, or completes the
\* calibration with it.
NoSignalPreservesCalibration ==
    [][ /\ NoSignalFrame(obs')
           => /\ runtime'.baseline = runtime.baseline
              /\ runtime'.calibrationBuffer = runtime.calibrationBuffer
              /\ runtime'.recalibrating = runtime.recalibrating
              /\ runtime'.driftFrames = runtime.driftFrames
              /\ runtime'.idleFrames = runtime.idleFrames
              /\ runtime'.stableGesture = runtime.stableGesture
              /\ runtime'.pendingGesture = runtime.pendingGesture
              /\ runtime'.pendingAge >= runtime.pendingAge
              /\ runtime'.trackingTier = runtime.trackingTier
              /\ runtime'.missingFrames = runtime.missingFrames + 1
        /\ (NoSignalFrame(obs) /\ obs'.frame = "signal"
                /\ (runtime.baseline = None \/ runtime.recalibrating))
           => \/ runtime'.calibrationBuffer =
                     Append(runtime.calibrationBuffer, runtime'.lastSignal[1])
              \/ /\ runtime'.calibrationBuffer = <<>>
                 /\ Len(runtime.calibrationBuffer) + 1
                        = (IF runtime.recalibrating THEN RECALIBRATION_FRAMES
                           ELSE CALIBRATION_FRAMES)
                 /\ runtime'.baseline # None
                 /\ ~runtime'.recalibrating ]_vars

\* A calibration in progress has met more frames without a signal than the
\* occlusion threshold allows: no-person is published and the samples are
\* still in the buffer.
CalibrationKeptOverOcclusion ==
    /\ NoSignalFrame(obs)
    /\ runtime.missingFrames > MAX_MISSING_FRAMES
    /\ published.status = "no-person"
    /\ runtime.baseline = None
    /\ Len(runtime.calibrationBuffer) > 0

\* C26: between frames, a runtime without a baseline is not recalibrating and
\* has fewer than CALIBRATION_FRAMES samples in its buffer; a recalibrating
\* runtime has a baseline and from 1 to RECALIBRATION_FRAMES - 1 samples; a
\* runtime with a baseline that is not recalibrating has an empty buffer; and
\* in an enabled session the baseline is null exactly while fewer than
\* CALIBRATION_FRAMES frames with a signal have been processed.
CalibrationBufferBounds ==
    /\ runtime.baseline = None
       => /\ ~runtime.recalibrating
          /\ Len(runtime.calibrationBuffer) < CALIBRATION_FRAMES
    /\ runtime.recalibrating
       => /\ runtime.baseline # None
          /\ Len(runtime.calibrationBuffer) >= 1
          /\ Len(runtime.calibrationBuffer) < RECALIBRATION_FRAMES
    /\ (runtime.baseline # None /\ ~runtime.recalibrating)
       => runtime.calibrationBuffer = <<>>
    /\ enabled
       => /\ runtime.baseline = None <=> obs.usable < CALIBRATION_FRAMES
          /\ runtime.baseline = None => Len(runtime.calibrationBuffer) = obs.usable

\* A recalibration lacks one sample.
RecalibrationBufferNearlyFull ==
    /\ runtime.recalibrating
    /\ Len(runtime.calibrationBuffer) = RECALIBRATION_FRAMES - 1
    /\ obs.usable = CALIBRATION_FRAMES

\* C27: while the hook stays enabled the stable gesture changes only on a
\* frame with a signal that meets a calibrated runtime, whose candidate
\* differs from the stable gesture and is the pending candidate recorded by an
\* earlier frame, DEBOUNCE_MS or more after that was recorded; the new stable
\* gesture is that candidate.
StableChangesByDebounceOnly ==
    [][ (enabled /\ enabled' /\ runtime'.stableGesture # runtime.stableGesture)
        => /\ obs'.frame = "signal"
           /\ runtime.baseline # None
           /\ ~runtime.recalibrating
           /\ LastCandidate(obs') = runtime'.stableGesture
           /\ runtime.pendingGesture = runtime'.stableGesture
           /\ runtime'.pendingGesture = NULL
           /\ IF loop = "resumed"
              THEN runtime.pendingAge >= DEBOUNCE_MS
              ELSE \E dt \in TickSteps :
                      Later(runtime.pendingAge, Later(runtime.sinceDetect, dt))
                          >= DEBOUNCE_MS ]_vars

\* The stable gesture has gone back from JUMP to IDLE on the latest frame.
ReturnedToIdle ==
    /\ enabled
    /\ obs.frame = "signal"
    /\ Len(obs.trail) >= 2
    /\ obs.trail[Len(obs.trail)].stable = "IDLE"
    /\ obs.trail[Len(obs.trail)].candidate = "IDLE"
    /\ obs.trail[Len(obs.trail) - 1].stable = "JUMP"

----------------------------------------------------------------------------
(* estimateGesture alone, on a calibrated runtime, over a few frames with   *)
(* signals around the thresholds                                            *)

\* Frames applied in a row.
MaxEstimates == 2

\* Baselines of a calibrated runtime: twice JUMP_THRESHOLD (about 0.2), a
\* quarter, and 5/64 (head at the top of the frame, shoulders across it).
EstimateBaselines == {FAdd(JUMP_THRESHOLD, JUMP_THRESHOLD), Lit(25, 100), Lit(5, 64)}

\* Signals of a frame: at, below and above each baseline by the thresholds.
EstimateSignals ==
    {Lit(5, 1024), Lit(5, 100), JUMP_THRESHOLD, Lit(12, 100), Lit(15, 100),
     Lit(20, 100),
     FAdd(FAdd(JUMP_THRESHOLD, JUMP_THRESHOLD), DUCK_THRESHOLD),
     Lit(35, 100)}

\* The signal of the frame before: none, the lowest signal plus
\* QUICK_JUMP_VELOCITY, or one of two more.
EstimateLastSignals ==
    {None, Some(FAdd(Lit(5, 1024), QUICK_JUMP_VELOCITY)), Some(Lit(13, 100)),
     Some(Lit(20, 100))}

\* The idle frame counts a calibrated runtime starts from: a fresh run, and
\* runs about to pass IDLE_ACCELERATION_FRAMES.
EstimateIdleRuns == {0, IDLE_ACCELERATION_FRAMES - 1, IDLE_ACCELERATION_FRAMES}

\* A runtime after calibration, between two frames.
EstimateRuntimes ==
    { [createRuntime EXCEPT !.baseline = Some(b), !.stableGesture = g,
                            !.idleFrames = n, !.lastSignal = l,
                            !.sinceDetect = 0] :
        b \in EstimateBaselines, g \in {"IDLE", "JUMP", "DUCK"},
        n \in EstimateIdleRuns, l \in EstimateLastSignals }

\* What computeTierSignal returns for a frame with a usable signal.
EstimateInputs ==
    { TierResult(1, s, TIER1_MULTIPLIER) : s \in EstimateSignals }
        \cup { TierResult(2, s, TIER2_MULTIPLIER) : s \in {JUMP_THRESHOLD, Lit(20, 100)} }
        \cup { TierResult(3, s, TIER3_MULTIPLIER) : s \in {Lit(12, 100), Lit(35, 100)} }

EstimateInit ==
    /\ runtime \in EstimateRuntimes
    /\ tierOut \in EstimateInputs
    /\ obs = NoHistory
    /\ enabled = TRUE
    /\ published = INITIAL_STATE
    /\ landmarkerRef = TRUE
    /\ initPromiseRef = FALSE
    /\ loop = "scheduled"
    /\ staleAwaiting = FALSE
    /\ video = "ready"
    /\ subject = SubjectAt("mid", 0, {}, 0)
    /\ lmIn = FrameMid
    /\ scene = WelcomeScene(CHALLENGES, PoseState("IDLE", "idle"))
    /\ watch = NoWatch

\* One call of estimateGesture with the frame's tier result; the history
\* takes the candidate and the gesture handed back.
Estimated(o, e) ==
    [o EXCEPT !.frame = "signal",
              !.usable = @ + 1,
              !.trail = Pushed(@, Entry(e.candidate, e.runtime.stableGesture,
                                        e.gesture))]

EstimateFrame ==
    /\ obs.usable < MaxEstimates
    /\ runtime' = EstimateWithTier(runtime, tierOut).runtime
    /\ obs' = Estimated(obs, EstimateWithTier(runtime, tierOut))
    /\ tierOut' \in EstimateInputs
    /\ UNCHANGED <<enabled, published, landmarkerRef, initPromiseRef, loop,
                   staleAwaiting, video, subject, lmIn, sceneVars>>

EstimateNext == EstimateFrame

SpecEstimate == EstimateInit /\ [][EstimateNext]_vars

\* C28: on a frame with a signal that meets a calibrated runtime, a stable
\* gesture of IDLE moves the baseline to baseline * a + signal * (1 - a),
\* a being BASELINE_SMOOTHING while the run of idle frames, this one counted,
\* is at most IDLE_ACCELERATION_FRAMES and IDLE_SMOOTHING beyond; a stable
\* gesture of JUMP or DUCK leaves the baseline and sets the idle run to 0.
IdleAdaptation ==
    [][ (obs'.usable = obs.usable + 1 /\ runtime.baseline # None
            /\ ~runtime.recalibrating)
        => IF runtime.stableGesture = "IDLE"
           THEN /\ runtime'.idleFrames = runtime.idleFrames + 1
                /\ runtime'.baseline =
                     IF runtime.idleFrames + 1 <= IDLE_ACCELERATION_FRAMES
                     THEN Some(FAdd(FMul(runtime.baseline[1], Lit(85, 100)),
                                    FMul(tierOut.signal, FSub(Num(1), Lit(85, 100)))))
                     ELSE Some(FAdd(FMul(runtime.baseline[1], Lit(75, 100)),
                                    FMul(tierOut.signal, FSub(Num(1), Lit(75, 100)))))
           ELSE /\ runtime'.baseline = runtime.baseline
                /\ runtime'.idleFrames = 0 ]_vars

\* The 61st idle frame in a row has been processed.
AcceleratedIdleFrame ==
    /\ obs.frame = "signal"
    /\ obs.usable = MaxEstimates
    /\ runtime.stableGesture = "IDLE"
    /\ runtime.idleFrames = IDLE_ACCELERATION_FRAMES + 1


\* A frame has placed its signal into the calibration buffer: the calibration
\* or recalibration took it, or the recalibration started from it.
SamplePlaced ==
    /\ enabled /\ enabled'
    /\ obs'.frame = "signal"
    /\ \/ runtime'.calibrationBuffer # runtime.calibrationBuffer
       \/ runtime.baseline = None /\ runtime'.baseline # None
       \/ runtime.recalibrating /\ ~runtime'.recalibrating

\* C29 (as stated): a frame that places a sample into the calibration buffer
\* does not count an idle frame and does not smooth the baseline: the
\* baseline stays, or is set by the calibration that the sample completes.
SampleExcludesAdaptation ==
    [][ SamplePlaced
        => /\ runtime'.idleFrames # runtime.idleFrames + 1
           /\ \/ runtime'.baseline = runtime.baseline
              \/ runtime'.calibrationBuffer = <<>> ]_vars


\* The frame starts the recalibration: it meets a calibrated runtime and
\* leaves a recalibrating one.
Reseeding ==
    /\ runtime.baseline # None
    /\ ~runtime.recalibrating
    /\ runtime'.recalibrating

\* C29: a frame that places a sample into the calibration buffer does not
\* count an idle frame and does not smooth the baseline, except the frame that
\* starts the recalibration: that one has counted an idle frame and smoothed
\* the baseline towards its signal before it seeds the buffer with the signal.
SampleExcludesAdaptationButReseeding ==
    [][ SamplePlaced
        => IF Reseeding
           THEN /\ runtime.stableGesture = "IDLE"
                /\ runtime'.idleFrames = runtime.idleFrames + 1
                /\ runtime'.calibrationBuffer = <<runtime'.lastSignal[1]>>
                /\ runtime'.baseline =
                     Some(Smoothed(runtime.baseline[1], runtime'.lastSignal[1],
                                   IF runtime.idleFrames + 1 > IDLE_ACCELERATION_FRAMES
                                   THEN IDLE_SMOOTHING ELSE BASELINE_SMOOTHING))
                /\ runtime'.baseline # runtime.baseline
           ELSE /\ runtime'.idleFrames \in {runtime.idleFrames, 0}
                /\ \/ runtime'.baseline = runtime.baseline
                   \/ runtime'.calibrationBuffer = <<>> ]_vars

\* The recalibration has just started, on the fifteenth idle frame since the
\* calibration.
RecalibrationSeeded ==
    /\ enabled
    /\ obs.frame = "signal"
    /\ runtime.recalibrating
    /\ Len(runtime.calibrationBuffer) = 1
    /\ runtime.idleFrames = CALIBRATION_FRAMES


\* The deltas of the frame just processed: baseline - signal with the
\* baseline the frame has left, and previous signal - signal (0 without a
\* previous signal).
JumpDeltaOf(after, result) == FSub(after.baseline[1], result.signal)

DuckDeltaOf(after, result) == FSub(result.signal, after.baseline[1])

VelocityOf(before, result) ==
    IF before.lastSignal = None THEN 0 ELSE FSub(before.lastSignal[1], result.signal)

\* C30: the candidate of a frame that reaches the classifier is JUMP iff
\* baseline - signal > 0.10 m, or baseline - signal > 0.065 m and previous
\* signal - signal > 0.010 m; otherwise DUCK iff signal - baseline > 0.09 m;
\* otherwise IDLE; m is the tier's multiplier and the baseline is the one the
\* frame's idle adaptation has left.
CandidateByStrictThresholds ==
    [][ (obs'.usable = obs.usable + 1 /\ LastCandidate(obs') # NULL)
        => LastCandidate(obs') =
             IF \/ JumpDeltaOf(runtime', tierOut)
                     > FMul(Lit(10, 100), tierOut.thresholdMultiplier)
                \/ /\ JumpDeltaOf(runtime', tierOut)
                        > FMul(Lit(65, 1000), tierOut.thresholdMultiplier)
                   /\ VelocityOf(runtime, tierOut)
                        > FMul(Lit(10, 1000), tierOut.thresholdMultiplier)
             THEN "JUMP"
             ELSE IF DuckDeltaOf(runtime', tierOut)
                        > FMul(Lit(9, 100), tierOut.thresholdMultiplier)
             THEN "DUCK"
             ELSE "IDLE" ]_vars

\* A frame of tier 1 whose signal is below the baseline by JUMP_THRESHOLD
\* exactly has been classified IDLE.
JumpDeltaAtThreshold ==
    /\ obs.frame = "signal"
    /\ obs.usable > 0
    /\ runtime.trackingTier = 1
    /\ FSub(runtime.baseline[1], runtime.lastSignal[1]) = JUMP_THRESHOLD
    /\ LastCandidate(obs) = "IDLE"


\* C31: the published calibrationProgress is between 0 and 1; with the status
\* calibrating it is the length of the calibration buffer over
\* CALIBRATION_FRAMES, or over RECALIBRATION_FRAMES while recalibrating; with
\* the status tracking it is 1.
ProgressFollowsCalibration ==
    /\ published.calibrationProgress >= 0
    /\ published.calibrationProgress <= Num(1)
    /\ published.status = "calibrating"
         => /\ runtime.baseline = None \/ runtime.recalibrating
            /\ published.calibrationProgress =
                 FDiv(Num(Len(runtime.calibrationBuffer)),
                      Num(IF runtime.recalibrating THEN 10 ELSE 15))
    /\ published.status = "tracking"
         => /\ published.calibrationProgress = Num(1)
            /\ runtime.baseline # None
            /\ ~runtime.recalibrating

\* Half of a recalibration is published.
RecalibrationHalfway ==
    /\ published.status = "calibrating"
    /\ runtime.recalibrating
    /\ Len(runtime.calibrationBuffer) = 5
    /\ published.calibrationProgress = Lit(5, 10)


\* C32: the published errorMessage is null after every step that leaves a
\* status other than error, and a disable leaves INITIAL_STATE published.
MessageOnlyWithError ==
    [][ /\ published'.status # "error" => published'.errorMessage = NULL
        /\ (enabled /\ ~enabled') => published' = INITIAL_STATE ]_vars


\* C33: whenever the published status is tracking the published gesture is
\* the runtime's stable gesture.
TrackingPublishesStable ==
    published.status = "tracking" => published.gesture = runtime.stableGesture


\* C34: while the hook is disabled the published status is idle and nothing
\* is published, and the settling of a creation that only a loop of an earlier
\* session awaits publishes nothing in the session that follows.
DisabledStaysIdle ==
    [][ /\ ~enabled' => published'.status = "idle"
        /\ (~enabled /\ ~enabled') => published' = published
        /\ ( /\ enabled /\ enabled'
             /\ staleAwaiting /\ loop # "awaiting"
             /\ initPromiseRef /\ ~initPromiseRef' )
           => published' = published ]_vars


\* C35: while the baseline is not set or the runtime is recalibrating the
\* stable gesture is IDLE, and a pending candidate differs from the stable
\* gesture.
StableIdleUntilCalibrated ==
    /\ (runtime.baseline = None \/ runtime.recalibrating)
         => runtime.stableGesture = "IDLE"
    /\ runtime.pendingGesture # NULL
         => runtime.pendingGesture # runtime.stableGesture


\* A recalibration is under way with a candidate still pending from before.
PendingWhileRecalibrating ==
    /\ runtime.recalibrating
    /\ runtime.stableGesture = "IDLE"
    /\ runtime.pendingGesture \in {"JUMP", "DUCK"}


\* C36: when a frame commits the stable gesture to a candidate, the frame
\* processed before it produced that candidate too (no frame without a
\* signal, calibration frame or fault lies between the frame that recorded
\* the pending candidate and the commit).
CommitOnlyAfterUnbrokenRun ==
    [][ (enabled /\ enabled' /\ runtime'.stableGesture # runtime.stableGesture)
        => LastCandidate(obs) = runtime'.stableGesture ]_vars


----------------------------------------------------------------------------
(* A calibrated hook in front of a subject that has moved and stays: every  *)
(* frame, DETECTION_INTERVAL_MS after the one before, has the same signal   *)

\* Idle frames in a row explored.
MaxShiftIdle == 64

\* The signals the subject can have moved to.
ShiftInputs == EstimateInputs \cup {TierResult(1, Lit(75, 100), TIER1_MULTIPLIER)}

\* The runtime as the calibration leaves it, with the record then published.
ShiftInit ==
    /\ runtime \in { [createRuntime EXCEPT !.baseline = Some(b), !.sinceDetect = 0,
                                          !.lastSignal = Some(b)] :
                        b \in EstimateBaselines }
    /\ published = publish(INITIAL_STATE, Partial("IDLE", "tracking", Num(1), 1))
    /\ tierOut \in ShiftInputs
    /\ obs = NoHistory
    /\ enabled = TRUE
    /\ landmarkerRef = TRUE
    /\ initPromiseRef = FALSE
    /\ loop = "scheduled"
    /\ staleAwaiting = FALSE
    /\ video = "ready"
    /\ subject = SubjectAt("mid", 0, {}, 0)
    /\ lmIn = FrameMid
    /\ scene = WelcomeScene(CHALLENGES, PoseState("IDLE", "idle"))
    /\ watch = NoWatch

\* The runtime a frame meets DETECTION_INTERVAL_MS after the one before.
AtNextFrame(r) == Stamp(Elapse(r, DETECTION_INTERVAL_MS))

\* The history tells a frame from the one before it.
Alternated(o) == [o EXCEPT !.frame = "signal", !.fresh = ~@]

\* Lines 1546-1603 for one frame with the subject's signal.
ShiftFrame ==
    /\ runtime.idleFrames < MaxShiftIdle
    /\ runtime' = EstimateWithTier(AtNextFrame(runtime), tierOut).runtime
    /\ published' = publish(published,
                            Concluded(EstimateWithTier(AtNextFrame(runtime), tierOut)))
    /\ obs' = Alternated(obs)
    /\ UNCHANGED <<enabled, landmarkerRef, initPromiseRef, loop, staleAwaiting,
                   video, subject, lmIn, tierOut, sceneVars>>

ShiftNext == ShiftFrame

\* A frame is processed: the only step that alternates the history.
FrameProcessed ==
    /\ runtime.idleFrames < MaxShiftIdle
    /\ obs' = Alternated(obs)

\* Lines 1615-1624: every frame callback requests the next one, and the
\* display keeps calling them, so frames keep being processed.
SpecShift == ShiftInit /\ [][ShiftNext]_vars /\ WF_obs(FrameProcessed)

\* C37: in front of a subject that has moved for good after the calibration,
\* the stable and the published gesture are IDLE from some frame on.
PermanentShiftAbsorbed ==
    <>[](runtime.stableGesture = "IDLE" /\ published.gesture = "IDLE")


----------------------------------------------------------------------------
(* WelcomeScene: the detect phase (SkeletonCanvas.tsx lines 171-209), under *)
(* every stream of poses                                                    *)

\* window.setTimeout(..., 2000).
PhaseDelay == 2000

\* How long a body is followed.
MaxWatched == 3000

\* Line 174.
HasBody(pose) == pose.status \in {"calibrating", "tracking"}

\* Lines 203-208: the cleanup of the effect's previous run.
DetectCleanup(s) == [s EXCEPT !.phaseTimer = None]

\* Lines 172-201: the effect's body; setBodyDetected asks for a render.
DetectEffect(s) ==
    IF s.phase # "detect" THEN s
    ELSE IF HasBody(s.pose) /\ ~s.bodyDetected
    THEN [s EXCEPT !.bodyDetected = TRUE, !.phaseTimer = Some(PhaseDelay),
                   !.renderPending = TRUE]
    ELSE IF ~HasBody(s.pose) /\ s.bodyDetected
    THEN [s EXCEPT !.bodyDetected = FALSE, !.phaseTimer = None,
                   !.renderPending = TRUE]
    ELSE s

\* The render that setBodyDetected asked for: bodyDetected is a dependency of
\* the effect (line 209), so the cleanup runs and then the body again.
DetectSettled(s) ==
    IF s.renderPending
    THEN DetectEffect(DetectCleanup([s EXCEPT !.renderPending = FALSE]))
    ELSE s

\* A render with a new pose: the effect runs again when pose.status changed.
DetectRendered(s, p) ==
    IF p.status = s.pose.status
    THEN [s EXCEPT !.pose = p]
    ELSE DetectSettled(DetectEffect(DetectCleanup([s EXCEPT !.pose = p])))

\* Lines 190-193: the timeout's callback, and the render that follows.
PhaseTimerDone(s) == DetectCleanup(ChallengePhase(s))

\* For how long the pose has had a body without a break (not component state).
DetectWatch(n) == [hasBodyFor |-> n]

BodyWatched(w, pose, d) ==
    IF ~HasBody(pose) THEN DetectWatch(0)
    ELSE IF w.hasBodyFor + d >= MaxWatched THEN DetectWatch(MaxWatched)
    ELSE DetectWatch(w.hasBodyFor + d)

DetectInit ==
    /\ scene = DetectSettled(DetectEffect(WelcomeScene(CHALLENGES,
                                                       PoseState("IDLE", "idle"))))
    /\ watch = DetectWatch(0)
    /\ enabled = FALSE
    /\ runtime = createRuntime
    /\ published = INITIAL_STATE
    /\ landmarkerRef = FALSE
    /\ initPromiseRef = FALSE
    /\ loop = "none"
    /\ staleAwaiting = FALSE
    /\ video = "absent"
    /\ subject = SubjectAt("mid", 0, {}, 0)
    /\ obs = NoHistory
    /\ lmIn = FrameHidden
    /\ tierOut = NotRun

\* usePoseGesture hands the component another pose.
DetectPoseChange ==
    /\ scene.phase = "detect"
    /\ \E p \in PoseStates \ {scene.pose} :
          /\ scene' = DetectRendered(scene, p)
          /\ watch' = BodyWatched(watch, p, 0)
    /\ UNCHANGED <<hookVars, tierVars>>

\* Time passes; the timeout's callback runs when it is due.
DetectPass ==
    /\ scene.phase = "detect"
    /\ \E d \in ClockSteps :
          /\ scene' = IF Due(Nearer(scene.phaseTimer, d))
                      THEN PhaseTimerDone(scene)
                      ELSE [scene EXCEPT !.phaseTimer = Nearer(@, d)]
          /\ watch' = BodyWatched(watch, scene.pose, d)
    /\ UNCHANGED <<hookVars, tierVars>>

DetectNext == DetectPoseChange \/ DetectPass

SpecDetect == DetectInit /\ [][DetectNext]_vars

\* C38: once the pose has had a body for PhaseDelay without a break, the
\* component has left the detect phase for the challenges.
BodyStartsChallenges ==
    watch.hasBodyFor >= PhaseDelay => scene.phase = "calibrate"


\* C39: while the hook is enabled its loop is alive: a frame callback is
\* scheduled, or the loop is suspended in ensureLandmarker or has just
\* resumed from it.
LoopNeverStops ==
    enabled => loop \in {"scheduled", "awaiting", "resumed"}

=============================================================================
